---- MODULE Spec2Model ----
(***************************************************************************)
(* A model of goscript's function-level code generator                     *)
(* (codegen/src/func.rs), of its metadata registry (vm/src/metadata.rs),   *)
(* of its reflection library (engine/src/std/reflect.rs) and of its parser *)
(* (src/parser.rs).                                                        *)
(*                                                                         *)
(* The specifications share the module's variables:                        *)
(*   Spec       the code generator: emit_load, emit_store, emit_import     *)
(*              appending to a FunctionVal's code buffer;                  *)
(*   SpecImport the code emitted by emit_import, run by the VM;            *)
(*   SpecPtr    ptr_to and unptr_to applied in chains to a handle;         *)
(*   SpecMeta   the metadata registry, its constructors and                *)
(*              get_value_type;                                            *)
(*   SpecTypes, SpecMethods, SpecParams, SpecSlots                         *)
(*              the types' underlying, zero and default values, the method *)
(*              tables, the parameters and the methods' code;              *)
(*   SpecReflect the values of the reflection library;                     *)
(*   SpecParser, SpecResolve                                               *)
(*              the parser's scopes: short_var_decl, declare, try_resolve; *)
(*   SpecAdvance, SpecStmts, SpecTypeList                                  *)
(*              the parser's loops, one turn at a time: advance,           *)
(*              parse_stmt_list, the type lists;                           *)
(*   SpecExpr   parse_rhs on a file of tokens.                             *)
(* A Rust panic (unreachable!, assert!) is an outcome of its own; nothing  *)
(* runs after it.                                                          *)
(***************************************************************************)
EXTENDS Integers, Sequences, FiniteSets, TLC

VARIABLES
    code,       \* FunctionVal.code: the code buffer, a sequence of Instruction
    consts,     \* FunctionVal's constant pool (index 0 is consts[1])
    pre,        \* the code buffer as it was when the last call was entered
    call,       \* the last call of the code generator: its name and arguments
    ret,        \* how the last call ended: "ok", or the kind of panic
    ncalls,     \* the number of calls made so far
    vm,         \* the VM running the function: pc, stack, packages
    metas,      \* MetadataObjs: the registry, MetadataKey k is metas[k]
    mcall,      \* the last registry operation: its name and arguments
    mret,       \* its result: [ret |-> "ok", val |-> ..] or [ret |-> a panic]
    build,      \* "debug" or "release": whether debug_assert! is compiled in
    locals,     \* FunctionVal's locals: the symbol of each, <<>> when anonymous
    parser,     \* the Parser: its scopes, entities, errors, and its last call
    std         \* the reflect FFI: the StdValue made, the last call, its results

vars ==
    <<code, consts, pre, call, ret, ncalls, vm, metas, mcall, mret, build,
      locals, parser, std>>

genVars == <<code, consts, pre, call, ret, ncalls>>
metaVars == <<metas, mcall, mret, build>>
auxVars == <<locals, parser, std>>

---------------------------------------------------------------------------
(* Bounds of the model. *)

\* the number of calls of the code generator in one run
MaxCalls == 2

---------------------------------------------------------------------------
(* Instruction, OpIndex, ValueType: vm/src/instruction.rs is not part of    *)
(* the sources at hand; these follow the specification's sections 4.A and  *)
(* 6.2.                                                                    *)

\* OpIndex is the signed 16-bit integer of one packed immediate slot.
OpIndexMin == -(2^15)
OpIndexMax == 2^15 - 1

\* Option::None for a type tag (the reserved "absent" tag).
NoType == "None"

\* The opcodes the code generator emits, and the binary operators a
\* compound assignment fuses; code2index is the position in this list.
Opcodes ==
    << "PUSH_CONST", "PUSH_IMM", "PUSH_TRUE", "PUSH_FALSE",
       "LOAD_LOCAL", "STORE_LOCAL", "LOAD_UPVALUE", "STORE_UPVALUE",
       "LOAD_THIS_PKG_FIELD", "STORE_THIS_PKG_FIELD",
       "LOAD_FIELD", "STORE_FIELD", "LOAD_INDEX", "STORE_INDEX",
       "STORE_DEREF", "JUMP_IF_NOT", "PRE_CALL", "CALL", "IMPORT",
       "ADD", "SUB", "LEN", "CAP" >>

\* Instruction::code2index: an injective map from opcodes to OpIndex.
code2index(op) == CHOOSE n \in 1..Len(Opcodes) : Opcodes[n] = op

\* Instruction::new(op, type0, type1, type2, imm): imm is <<>> for None and
\* <<v>> for Some(v).
Instruction_new(op, t0, t1, t2, imm) ==
    [op |-> op, t0 |-> t0, t1 |-> t1, t2 |-> t2, imm |-> imm]

\* Instruction::set_imm2(imm0, imm1): the two immediates of the word.
set_imm2(inst, imm0, imm1) == [inst EXCEPT !.imm = <<imm0, imm1>>]

\* FunctionVal::emit_inst and FunctionVal::emit_code: the low-level append.
emit_inst(c, op, t0, t1, t2, imm) ==
    Append(c, Instruction_new(op, t0, t1, t2, imm))

emit_code(c, op) == Append(c, Instruction_new(op, NoType, NoType, NoType, <<>>))

\* FunctionVal::const_val(i): the constant at index i (indices start at 0).
const_val(cs, i) == cs[i + 1]

\* OpIndex::try_from(i) of an isize: <<i>> for Ok(i), <<>> for Err.
OpIndex_try_from(i) == IF i >= OpIndexMin /\ i <= OpIndexMax THEN <<i>> ELSE <<>>

---------------------------------------------------------------------------
(* The results of an emit primitive: the code buffer and the outcome.       *)

\* The outcomes of a call: a normal return, or one of Rust's panics.
Unreachable == "unreachable"          \* unreachable!()
AssertFailed == "assertion failed"    \* assert!, debug_assert!
NotImplemented == "not implemented"    \* unimplemented!()
PanicKinds == {Unreachable, AssertFailed, NotImplemented}

Ok(c) == [code |-> c, ret |-> "ok"]
Panic(c, kind) == [code |-> c, ret |-> kind]

\* The constant pool of the function: the values of literals.
Pool ==
    << [vt |-> "Bool", b |-> TRUE], [vt |-> "Bool", b |-> FALSE],
       [vt |-> "Int", v |-> -32769], [vt |-> "Int", v |-> -32768],
       [vt |-> "Int", v |-> 0], [vt |-> "Int", v |-> 32767],
       [vt |-> "Int", v |-> 32768], [vt |-> "Int", v |-> 7],
       [vt |-> "Float64", f |-> "2.5"], [vt |-> "Str", s |-> "a"] >>

---------------------------------------------------------------------------
(* codegen/src/func.rs: the emit primitives.                                *)
(* An EntIndex is [kind |-> "Const", i |-> n], .. "LocalVar", "UpValue",   *)
(* "PackageMember" alike, [kind |-> "BuiltIn", op |-> o], [kind |-> "Blank"].*)
(* A LeftHandSide is [lhs |-> "Primitive", ent |-> e],                     *)
(* [lhs |-> "IndexSelExpr", info |-> IndexSelInfo], [lhs |-> "Deref", i |-> n]. *)
(* An Option<Opcode> is <<>> or <<op>>.                                    *)

\* emit_load_const with the integer cast to OpIndex by truncation (`as`)
\* in place of the checked try_from
emit_load_const_truncating(c, cs, i, typ) ==
    LET k == const_val(cs, i) IN
    IF k.vt = "Bool" /\ k.b THEN Ok(emit_code(c, "PUSH_TRUE"))
    ELSE IF k.vt = "Bool" /\ ~k.b THEN Ok(emit_code(c, "PUSH_FALSE"))
    ELSE IF k.vt = "Int"
    THEN LET imm == ((k.v + 2^15) % 2^16) - 2^15
         IN Ok(emit_inst(c, "PUSH_IMM", typ, NoType, NoType, <<imm>>))
    ELSE Ok(emit_inst(c, "PUSH_CONST", typ, NoType, NoType, <<i>>))

\* the arm EntIndex::Const(i) of emit_load
emit_load_const(c, cs, i, typ) ==
    LET k == const_val(cs, i) IN
    IF k.vt = "Bool" /\ k.b THEN Ok(emit_code(c, "PUSH_TRUE"))
    ELSE IF k.vt = "Bool" /\ ~k.b THEN Ok(emit_code(c, "PUSH_FALSE"))
    ELSE IF k.vt = "Int" /\ OpIndex_try_from(k.v) # <<>>
    THEN LET imm == OpIndex_try_from(k.v)[1]
         IN Ok(emit_inst(c, "PUSH_IMM", typ, NoType, NoType, <<imm>>))
    ELSE Ok(emit_inst(c, "PUSH_CONST", typ, NoType, NoType, <<i>>))

\* emit_load with an up-value loaded as a local
emit_load_upvalue_as_local(c, cs, index, typ) ==
    CASE index.kind = "Const" -> emit_load_const(c, cs, index.i, typ)
      [] index.kind \in {"LocalVar", "UpValue"} ->
            Ok(emit_inst(c, "LOAD_LOCAL", typ, NoType, NoType, <<index.i>>))
      [] index.kind = "PackageMember" ->
            Ok(emit_inst(c, "LOAD_THIS_PKG_FIELD", typ, NoType, NoType, <<index.i>>))
      [] index.kind = "BuiltIn" -> Ok(emit_code(c, index.op))
      [] index.kind = "Blank" -> Panic(c, Unreachable)

emit_load(c, cs, index, typ) ==
    CASE index.kind = "Const" -> emit_load_const(c, cs, index.i, typ)
      [] index.kind = "LocalVar" ->
            Ok(emit_inst(c, "LOAD_LOCAL", typ, NoType, NoType, <<index.i>>))
      [] index.kind = "UpValue" ->
            Ok(emit_inst(c, "LOAD_UPVALUE", typ, NoType, NoType, <<index.i>>))
      [] index.kind = "PackageMember" ->
            Ok(emit_inst(c, "LOAD_THIS_PKG_FIELD", typ, NoType, NoType, <<index.i>>))
      [] index.kind = "BuiltIn" -> Ok(emit_code(c, index.op))
      [] index.kind = "Blank" -> Panic(c, Unreachable)

\* emit_store_match with the two opcodes of IndexSelExpr exchanged and the
\* Package tag of a package member left out
emit_store_match_swapped(lhs) ==
    CASE lhs.lhs = "Primitive" ->
            (CASE lhs.ent.kind = "Const" -> <<>>
               [] lhs.ent.kind = "LocalVar" ->
                     <<"STORE_LOCAL", lhs.ent.i, NoType, NoType>>
               [] lhs.ent.kind = "UpValue" ->
                     <<"STORE_UPVALUE", lhs.ent.i, NoType, NoType>>
               [] lhs.ent.kind = "PackageMember" ->
                     <<"STORE_THIS_PKG_FIELD", lhs.ent.i, NoType, NoType>>
               [] lhs.ent.kind = "BuiltIn" -> <<>>
               [] lhs.ent.kind = "Blank" -> <<>>)
      [] lhs.lhs = "IndexSelExpr" ->
            LET op == IF lhs.info.is_index THEN "STORE_FIELD" ELSE "STORE_INDEX"
            IN <<op, lhs.info.index, lhs.info.t1, lhs.info.t2>>
      [] lhs.lhs = "Deref" -> <<"STORE_DEREF", lhs.i, NoType, NoType>>

\* The match of emit_store on lhs: <<code, i, t1, t2>>, or <<>> where the
\* arm is unreachable!().
emit_store_match(lhs) ==
    CASE lhs.lhs = "Primitive" ->
            (CASE lhs.ent.kind = "Const" -> <<>>
               [] lhs.ent.kind = "LocalVar" ->
                     <<"STORE_LOCAL", lhs.ent.i, NoType, NoType>>
               [] lhs.ent.kind = "UpValue" ->
                     <<"STORE_UPVALUE", lhs.ent.i, NoType, NoType>>
               [] lhs.ent.kind = "PackageMember" ->
                     <<"STORE_THIS_PKG_FIELD", lhs.ent.i, "Package", NoType>>
               [] lhs.ent.kind = "BuiltIn" -> <<>>
               [] lhs.ent.kind = "Blank" -> <<>>)
      [] lhs.lhs = "IndexSelExpr" ->
            LET op == IF lhs.info.is_index THEN "STORE_INDEX" ELSE "STORE_FIELD"
            IN <<op, lhs.info.index, lhs.info.t1, lhs.info.t2>>
      [] lhs.lhs = "Deref" -> <<"STORE_DEREF", lhs.i, NoType, NoType>>

\* the assertion compiled out
emit_store_assert_off(rhs_index, op) == TRUE

\* assert!(rhs_index == -1 || op.is_none())
emit_store_assert(rhs_index, op) == rhs_index = -1 \/ op = <<>>

\* imm0 taken from rhs_index whatever the compound operator
emit_store_imm0_rhs(rhs_index, op) == rhs_index

\* op.map_or(rhs_index, |x| Instruction::code2index(x))
emit_store_imm0(rhs_index, op) ==
    IF op = <<>> THEN rhs_index ELSE code2index(op[1])

\* emit_store with the assertion made before the Blank test
emit_store_assert_first(c, lhs, rhs_index, op, typ) ==
    IF ~emit_store_assert(rhs_index, op) THEN Panic(c, AssertFailed)
    ELSE IF lhs.lhs = "Primitive" /\ lhs.ent.kind = "Blank" THEN Ok(c)
    ELSE LET m == emit_store_match(lhs) IN
         IF m = <<>> THEN Panic(c, Unreachable)
         ELSE LET inst == Instruction_new(m[1], typ, m[3], m[4], <<>>)
                  imm0 == emit_store_imm0(rhs_index, op)
              IN Ok(Append(c, set_imm2(inst, imm0, m[2])))

emit_store(c, lhs, rhs_index, op, typ) ==
    IF lhs.lhs = "Primitive" /\ lhs.ent.kind = "Blank" THEN Ok(c)
    ELSE LET m == emit_store_match(lhs) IN
         IF m = <<>> THEN Panic(c, Unreachable)
         ELSE LET inst == Instruction_new(m[1], typ, m[3], m[4], <<>>) IN
              IF ~emit_store_assert(rhs_index, op) THEN Panic(c, AssertFailed)
              ELSE LET imm0 == emit_store_imm0(rhs_index, op)
                   IN Ok(Append(c, set_imm2(inst, imm0, m[2])))

\* emit_import with the jump appended after the block it guards
emit_import_jump_last(c, index) ==
    LET c1 == emit_inst(c, "IMPORT", NoType, NoType, NoType, <<index>>)
        cd == << Instruction_new("PUSH_IMM", NoType, NoType, NoType, <<0>>),
                 Instruction_new("LOAD_FIELD", "Package", "Int", NoType, <<>>),
                 Instruction_new("PRE_CALL", "Closure", NoType, NoType, <<>>),
                 Instruction_new("CALL", NoType, NoType, NoType, <<>>) >>
        offset == Len(cd)
    IN Ok(emit_inst(c1 \o cd, "JUMP_IF_NOT", NoType, NoType, NoType, <<offset>>))

\* emit_import with the offset taken as the index of the last guarded
\* instruction, one short of their number
emit_import_short_jump(c, index) ==
    LET c1 == emit_inst(c, "IMPORT", NoType, NoType, NoType, <<index>>)
        cd == << Instruction_new("PUSH_IMM", NoType, NoType, NoType, <<0>>),
                 Instruction_new("LOAD_FIELD", "Package", "Int", NoType, <<>>),
                 Instruction_new("PRE_CALL", "Closure", NoType, NoType, <<>>),
                 Instruction_new("CALL", NoType, NoType, NoType, <<>>) >>
        offset == Len(cd) - 1
        c2 == emit_inst(c1, "JUMP_IF_NOT", NoType, NoType, NoType, <<offset>>)
    IN Ok(c2 \o cd)

emit_import(c, index) ==
    LET c1 == emit_inst(c, "IMPORT", NoType, NoType, NoType, <<index>>)
        cd == << Instruction_new("PUSH_IMM", NoType, NoType, NoType, <<0>>),
                 Instruction_new("LOAD_FIELD", "Package", "Int", NoType, <<>>),
                 Instruction_new("PRE_CALL", "Closure", NoType, NoType, <<>>),
                 Instruction_new("CALL", NoType, NoType, NoType, <<>>) >>
        offset == Len(cd)
        c2 == emit_inst(c1, "JUMP_IF_NOT", NoType, NoType, NoType, <<offset>>)
    IN Ok(c2 \o cd)

---------------------------------------------------------------------------
(* The arguments the calls are made with.                                   *)

Typs == {"Int", "Str"}

Ent(kind, i) == [kind |-> kind, i |-> i]
BuiltInEnt(op) == [kind |-> "BuiltIn", op |-> op]
BlankEnt == [kind |-> "Blank"]

\* every constant of the pool, and some variables
LoadEnts ==
    {Ent("Const", i) : i \in 0..(Len(Pool) - 1)}
    \cup {Ent("LocalVar", 0), Ent("LocalVar", 1), Ent("UpValue", 1),
          Ent("PackageMember", 2), BuiltInEnt("LEN"), BlankEnt}

Primitive(e) == [lhs |-> "Primitive", ent |-> e]
IndexSelExpr(index, t1, t2, is_index) ==
    [lhs |-> "IndexSelExpr",
     info |-> [index |-> index, t1 |-> t1, t2 |-> t2, is_index |-> is_index]]
Deref(i) == [lhs |-> "Deref", i |-> i]

StoreLhs ==
    {Primitive(e) : e \in {Ent("Const", 0), Ent("LocalVar", 0), Ent("LocalVar", 1),
                           Ent("UpValue", 1), Ent("PackageMember", 2),
                           BuiltInEnt("LEN"), BlankEnt}}
    \cup {IndexSelExpr(-1, "Slice", "Int", TRUE), IndexSelExpr(3, "Map", "Str", TRUE),
          IndexSelExpr(4, "Struct", "Int", FALSE), Deref(5)}

RhsIndexes == {-1, -2}
CompoundOps == {<<>>, <<"ADD">>, <<"SUB">>}
Packages == {0, 1, 2}

---------------------------------------------------------------------------
(* The code generator as a state machine: each action is one call.          *)

VmIdle == [on |-> FALSE]
ParserIdle == [on |-> FALSE]
StdIdle == [on |-> FALSE]
AuxIdle ==
    /\ locals = <<>>
    /\ parser = ParserIdle
    /\ std = StdIdle

MetaIdle ==
    /\ metas = <<>>
    /\ mcall = [fn |-> "none"]
    /\ mret = [ret |-> "ok"]
    /\ build = "debug"

Init ==
    /\ code = <<>>
    /\ consts = Pool
    /\ pre = <<>>
    /\ call = [fn |-> "none"]
    /\ ret = "ok"
    /\ ncalls = 0
    /\ vm = VmIdle
    /\ MetaIdle
    /\ AuxIdle

\* a call is made while no call has panicked and the function is not running
CanCall == ncalls < MaxCalls /\ ret = "ok" /\ ~vm.on

Called(r, c) ==
    /\ code' = r.code
    /\ ret' = r.ret
    /\ pre' = code
    /\ call' = c
    /\ ncalls' = ncalls + 1
    /\ UNCHANGED <<auxVars, consts, vm, metaVars>>

EmitLoad ==
    \E index \in LoadEnts, typ \in Typs :
        /\ CanCall
        /\ Called(emit_load(code, consts, index, typ),
                  [fn |-> "emit_load", index |-> index, typ |-> typ])

EmitStore ==
    \E lhs \in StoreLhs, rhs_index \in RhsIndexes, op \in CompoundOps, typ \in Typs :
        /\ CanCall
        /\ Called(emit_store(code, lhs, rhs_index, op, typ),
                  [fn |-> "emit_store", lhs |-> lhs, rhs_index |-> rhs_index,
                   op |-> op, typ |-> typ])

EmitImport ==
    \E index \in Packages :
        /\ CanCall
        /\ Called(emit_import(code, index), [fn |-> "emit_import", index |-> index])

Next == EmitLoad \/ EmitStore \/ EmitImport

Spec == Init /\ [][Next]_vars

---------------------------------------------------------------------------
(* Properties of the code generator.                                        *)

\* the instruction the last call appended, when it appended
LastInst == code[Len(code)]
\* the last call appended n instructions and left the earlier ones alone
Appended(n) == Len(code) = Len(pre) + n /\ SubSeq(code, 1, Len(pre)) = pre
Inst(op, t0, t1, t2, imm) == [op |-> op, t0 |-> t0, t1 |-> t1, t2 |-> t2, imm |-> imm]

IsLoadOfInt ==
    /\ call.fn = "emit_load"
    /\ call.index.kind = "Const"
    /\ const_val(consts, call.index.i).vt = "Int"

\* C1: emit_load(Const(i), typ) of an integer constant v appends exactly one
\* instruction: PUSH_IMM(typ, v) when -32768 <= v <= 32767, and
\* PUSH_CONST(typ, i) otherwise.
C1_ConstantFold ==
    IsLoadOfInt =>
        LET i == call.index.i
            v == const_val(consts, i).v
        IN /\ ret = "ok"
           /\ Appended(1)
           /\ LastInst = IF v >= -32768 /\ v <= 32767
                         THEN Inst("PUSH_IMM", call.typ, NoType, NoType, <<v>>)
                         ELSE Inst("PUSH_CONST", call.typ, NoType, NoType, <<i>>)

\* an integer constant one above the largest immediate was loaded by index,
\* after an earlier instruction
C1_Witness ==
    /\ IsLoadOfInt
    /\ const_val(consts, call.index.i).v = 32768
    /\ Len(pre) > 0
    /\ LastInst.op = "PUSH_CONST"

IsBlankStore ==
    /\ call.fn = "emit_store"
    /\ call.lhs = Primitive(BlankEnt)

\* C2: emit_store with lhs = Primitive(Blank) returns normally and leaves the
\* code buffer as it was, whatever typ, rhs_index and op are.
C2_BlankStore == IsBlankStore => ret = "ok" /\ code = pre

\* a Blank store with rhs_index # -1 and a compound operator, on a buffer
\* that holds instructions
C2_Witness ==
    /\ IsBlankStore
    /\ call.rhs_index # -1 /\ call.op # <<>>
    /\ Len(pre) > 0 /\ code = pre /\ ret = "ok"

\* lhs is one of LocalVar, UpValue, PackageMember, IndexSelExpr, Deref
IsAssignable(lhs) ==
    \/ lhs.lhs = "Primitive" /\ lhs.ent.kind \in {"LocalVar", "UpValue", "PackageMember"}
    \/ lhs.lhs \in {"IndexSelExpr", "Deref"}

\* the slot of an assignable lhs
SlotOf(lhs) ==
    CASE lhs.lhs = "Primitive" -> lhs.ent.i
      [] lhs.lhs = "IndexSelExpr" -> lhs.info.index
      [] lhs.lhs = "Deref" -> lhs.i

IsStoreTo ==
    /\ call.fn = "emit_store"
    /\ IsAssignable(call.lhs)

C4_StoreAssertion ==
    (call.fn = "emit_store" /\ ~IsBlankStore) =>
        /\ (call.rhs_index # -1 /\ call.op # <<>>) => (ret \in PanicKinds /\ code = pre)
        /\ (IsStoreTo /\ call.rhs_index # -1 /\ call.op # <<>>) => ret = AssertFailed
        /\ ret = "ok" => (call.rhs_index = -1 \/ call.op = <<>>)

\* an assignable lhs, rhs_index # -1 and an operator: the call failed
C4_Witness ==
    /\ IsStoreTo
    /\ call.rhs_index # -1 /\ call.op # <<>>
    /\ Len(pre) > 0 /\ code = pre /\ ret = AssertFailed

\* the opcode and the tags type1, type2 the lhs variant stands for
StoreShape(lhs) ==
    CASE lhs.lhs = "Primitive" /\ lhs.ent.kind = "LocalVar" ->
            <<"STORE_LOCAL", NoType, NoType>>
      [] lhs.lhs = "Primitive" /\ lhs.ent.kind = "UpValue" ->
            <<"STORE_UPVALUE", NoType, NoType>>
      [] lhs.lhs = "Primitive" /\ lhs.ent.kind = "PackageMember" ->
            <<"STORE_THIS_PKG_FIELD", "Package", NoType>>
      [] lhs.lhs = "Deref" -> <<"STORE_DEREF", NoType, NoType>>
      [] lhs.lhs = "IndexSelExpr" /\ lhs.info.is_index ->
            <<"STORE_INDEX", lhs.info.t1, lhs.info.t2>>
      [] lhs.lhs = "IndexSelExpr" /\ ~lhs.info.is_index ->
            <<"STORE_FIELD", lhs.info.t1, lhs.info.t2>>

\* C5: the instruction emit_store appends has the opcode and the tags type1
\* and type2 of the lhs variant, and type0 = typ; a Const or BuiltIn lhs
\* fails and appends nothing.
C5_StoreOpcode ==
    call.fn = "emit_store" =>
        /\ (IsStoreTo /\ ret = "ok") =>
              /\ Appended(1)
              /\ <<LastInst.op, LastInst.t1, LastInst.t2>> = StoreShape(call.lhs)
              /\ LastInst.t0 = call.typ
        /\ (call.lhs.lhs = "Primitive" /\ call.lhs.ent.kind \in {"Const", "BuiltIn"}) =>
              (ret = Unreachable /\ code = pre)

\* a store to a field: STORE_FIELD with the container and field tags
C5_Witness ==
    /\ IsStoreTo
    /\ call.lhs = IndexSelExpr(4, "Struct", "Int", FALSE)
    /\ call.typ = "Str"
    /\ ret = "ok" /\ Len(pre) > 0
    /\ LastInst.op = "STORE_FIELD" /\ LastInst.t0 = "Str"
    /\ LastInst.t1 = "Struct" /\ LastInst.t2 = "Int"

\* C6: emit_import(i) appends IMPORT(i), JUMP_IF_NOT(4), PUSH_IMM(0),
\* LOAD_FIELD(Package, Int), PRE_CALL(Closure), CALL, in this order, after
\* the instructions the buffer held, which are unchanged; 4 is the number of
\* instructions after the jump.
C6_ImportSequence ==
    call.fn = "emit_import" =>
        /\ ret = "ok"
        /\ Appended(6)
        /\ SubSeq(code, Len(pre) + 1, Len(code)) =
              << Inst("IMPORT", NoType, NoType, NoType, <<call.index>>),
                 Inst("JUMP_IF_NOT", NoType, NoType, NoType, <<4>>),
                 Inst("PUSH_IMM", NoType, NoType, NoType, <<0>>),
                 Inst("LOAD_FIELD", "Package", "Int", NoType, <<>>),
                 Inst("PRE_CALL", "Closure", NoType, NoType, <<>>),
                 Inst("CALL", NoType, NoType, NoType, <<>>) >>
        /\ code[Len(pre) + 2].imm[1] = Len(code) - (Len(pre) + 2)

\* an import emitted after another instruction
C6_Witness ==
    /\ call.fn = "emit_import" /\ call.index = 2
    /\ Len(pre) = 1 /\ Len(code) = 7
    /\ code[3].op = "JUMP_IF_NOT"

---------------------------------------------------------------------------
(* The VM running the code of a function that imports packages.  The VM's   *)
(* source (vm/src/vm.rs) is not at hand; the steps follow the               *)
(* specification's sections 4.A, 4.E.3 and 4.E.6: IMPORT leaves on top of   *)
(* the stack whether the package is already initialized, JUMP_IF_NOT skips  *)
(* `offset` instructions when it is, LOAD_FIELD loads the init function     *)
(* (member 0 of the package), CALL runs it to its RETURN_INIT_PKG, which    *)
(* records the package as initialized.                                      *)
(* vm.pc counts from 0: the instruction at vm.pc is code[vm.pc + 1].        *)

Fetch == code[vm.pc + 1]
Running == vm.on /\ vm.pc < Len(code)
Push(st, v) == Append(st, v)
Pop(st) == SubSeq(st, 1, Len(st) - 1)
Top(st) == st[Len(st)]

\* The function starts to run; some packages were initialized before.
VmStart ==
    /\ ~vm.on /\ ret = "ok" /\ ncalls > 0
    /\ \E S \in SUBSET Packages :
          vm' = [on |-> TRUE, pc |-> 0, stack |-> <<>>,
                 inited |-> [p \in Packages |-> p \in S],
                 was |-> [p \in Packages |-> p \in S],
                 calls |-> [p \in Packages |-> 0],
                 last |-> "none"]
    /\ UNCHANGED <<auxVars, genVars, metaVars>>

VmExec(op, pc, stack, inited, calls) ==
    /\ vm' = [vm EXCEPT !.pc = pc, !.stack = stack, !.inited = inited,
                        !.calls = calls, !.last = op]
    /\ UNCHANGED <<auxVars, genVars, metaVars>>

VmImport ==
    /\ Running /\ Fetch.op = "IMPORT"
    /\ LET p == Fetch.imm[1]
           st == Push(Push(vm.stack, [vt |-> "Package", pkg |-> p]),
                      [vt |-> "Bool", b |-> vm.inited[p]])
       IN VmExec("IMPORT", vm.pc + 1, st, vm.inited, vm.calls)

VmJumpIfNot ==
    /\ Running /\ Fetch.op = "JUMP_IF_NOT"
    /\ LET skip == Top(vm.stack).b
           pc == IF skip THEN vm.pc + 1 + Fetch.imm[1] ELSE vm.pc + 1
       IN VmExec("JUMP_IF_NOT", pc, Pop(vm.stack), vm.inited, vm.calls)

VmPushImm ==
    /\ Running /\ Fetch.op = "PUSH_IMM"
    /\ VmExec("PUSH_IMM", vm.pc + 1,
              Push(vm.stack, [vt |-> "Int", v |-> Fetch.imm[1]]),
              vm.inited, vm.calls)

\* LOAD_FIELD(Package, Int): the member of the package at the index on top
VmLoadField ==
    /\ Running /\ Fetch.op = "LOAD_FIELD"
    /\ LET idx == Top(vm.stack)
           pkg == Top(Pop(vm.stack))
           f == [vt |-> "Closure", pkg |-> pkg.pkg, member |-> idx.v]
       IN VmExec("LOAD_FIELD", vm.pc + 1, Push(Pop(Pop(vm.stack)), f),
                 vm.inited, vm.calls)

VmPreCall ==
    /\ Running /\ Fetch.op = "PRE_CALL"
    /\ VmExec("PRE_CALL", vm.pc + 1, vm.stack, vm.inited, vm.calls)

\* CALL of a package's member 0: its init function runs and returns with
\* RETURN_INIT_PKG
VmCall ==
    /\ Running /\ Fetch.op = "CALL"
    /\ LET f == Top(vm.stack) IN
       /\ f.vt = "Closure" /\ f.member = 0
       /\ VmExec("CALL", vm.pc + 1, Pop(vm.stack),
                 [vm.inited EXCEPT ![f.pkg] = TRUE],
                 [vm.calls EXCEPT ![f.pkg] = @ + 1])

NextImport ==
    \/ EmitImport
    \/ VmStart
    \/ VmImport
    \/ VmJumpIfNot
    \/ VmPushImm
    \/ VmLoadField
    \/ VmPreCall
    \/ VmCall

SpecImport == Init /\ [][NextImport]_vars

\* the VM is about to run a JUMP_IF_NOT
AtJump == Running /\ Fetch.op = "JUMP_IF_NOT"
\* the ops of the n instructions from pc on (pc counts from 0)
OpsFrom(pc, n) == [k \in 1..n |-> code[pc + k].op]

\* C7: running the code of emit_import: with the package reported as
\* initialized, JUMP_IF_NOT continues right after the CALL, 4 instructions
\* further, and no init function is called; with the package not yet
\* initialized, the 4 guarded instructions are next, in order.  The init
\* function of a package is called at most once, and never for a package
\* that was initialized before.
C7_JumpStep ==
    AtJump =>
        IF Top(vm.stack).b
        THEN /\ vm'.pc = vm.pc + 1 + 4
             /\ code[vm'.pc].op = "CALL"
             /\ vm'.calls = vm.calls
        ELSE /\ vm'.pc = vm.pc + 1
             /\ vm.pc + 5 <= Len(code)
             /\ OpsFrom(vm'.pc, 4) = <<"PUSH_IMM", "LOAD_FIELD", "PRE_CALL", "CALL">>

C7_InitOnce ==
    vm.on => \A p \in Packages :
                /\ vm.calls[p] <= 1
                /\ vm.was[p] => vm.calls[p] = 0
                /\ vm.calls[p] = 1 => vm.inited[p]

\* between an IMPORT and the CALL it guards, the steps follow in order
C7_InOrder ==
    (Running /\ vm.last \in {"PUSH_IMM", "LOAD_FIELD", "PRE_CALL"}) =>
        <<vm.last, Fetch.op>> \in {<<"PUSH_IMM", "LOAD_FIELD">>,
                                   <<"LOAD_FIELD", "PRE_CALL">>,
                                   <<"PRE_CALL", "CALL">>}

C7_ImportGuard == [](C7_InitOnce /\ C7_InOrder) /\ [][C7_JumpStep]_vars

\* a second import of a package: its init function ran once, for the first
\* import, and the second jump skipped to the end of the code
C7_Witness ==
    /\ vm.on /\ Len(code) = 12
    /\ code[1].imm = code[7].imm
    /\ vm.last = "JUMP_IF_NOT" /\ vm.pc = 12
    /\ ~vm.was[code[1].imm[1]]
    /\ vm.calls[code[1].imm[1]] = 1

---------------------------------------------------------------------------
(* vm/src/metadata.rs: GosMetadata handles.                                 *)
(* A handle is [tag |-> "Untyped"] or [tag |-> "NonPtr", key |-> k,         *)
(* is_type |-> t], with the tags "Ptr1" .. "Ptr7" alike.                    *)

Untyped == [tag |-> "Untyped"]
Meta(tag, k, t) == [tag |-> tag, key |-> k, is_type |-> t]
NonPtr(k, t) == Meta("NonPtr", k, t)

PtrTags == <<"Ptr1", "Ptr2", "Ptr3", "Ptr4", "Ptr5", "Ptr6", "Ptr7">>
Tags == {"NonPtr"} \cup {PtrTags[n] : n \in 1..Len(PtrTags)}

\* the results of an operation on handles
Val(v) == [ret |-> "ok", val |-> v]
Fail(kind) == [ret |-> kind]

\* ptr_to that wraps around at Ptr7
ptr_to_wrapping(self) ==
    CASE self.tag = "Untyped" -> Fail(Unreachable)
      [] self.tag = "NonPtr" -> Val(Meta("Ptr1", self.key, self.is_type))
      [] self.tag = "Ptr1" -> Val(Meta("Ptr2", self.key, self.is_type))
      [] self.tag = "Ptr2" -> Val(Meta("Ptr3", self.key, self.is_type))
      [] self.tag = "Ptr3" -> Val(Meta("Ptr4", self.key, self.is_type))
      [] self.tag = "Ptr4" -> Val(Meta("Ptr5", self.key, self.is_type))
      [] self.tag = "Ptr5" -> Val(Meta("Ptr6", self.key, self.is_type))
      [] self.tag = "Ptr6" -> Val(Meta("Ptr7", self.key, self.is_type))
      [] self.tag = "Ptr7" -> Val(Meta("NonPtr", self.key, self.is_type))

ptr_to(self) ==
    CASE self.tag = "Untyped" -> Fail(Unreachable)
      [] self.tag = "NonPtr" -> Val(Meta("Ptr1", self.key, self.is_type))
      [] self.tag = "Ptr1" -> Val(Meta("Ptr2", self.key, self.is_type))
      [] self.tag = "Ptr2" -> Val(Meta("Ptr3", self.key, self.is_type))
      [] self.tag = "Ptr3" -> Val(Meta("Ptr4", self.key, self.is_type))
      [] self.tag = "Ptr4" -> Val(Meta("Ptr5", self.key, self.is_type))
      [] self.tag = "Ptr5" -> Val(Meta("Ptr6", self.key, self.is_type))
      [] self.tag = "Ptr6" -> Val(Meta("Ptr7", self.key, self.is_type))
      [] self.tag = "Ptr7" -> Fail(Unreachable)

\* unptr_to with one arm copied from its neighbour: Ptr5 gives Ptr5
unptr_to_stuck(self) ==
    CASE self.tag = "Untyped" -> Fail(Unreachable)
      [] self.tag = "NonPtr" -> Fail(Unreachable)
      [] self.tag = "Ptr1" -> Val(Meta("NonPtr", self.key, self.is_type))
      [] self.tag = "Ptr2" -> Val(Meta("Ptr1", self.key, self.is_type))
      [] self.tag = "Ptr3" -> Val(Meta("Ptr2", self.key, self.is_type))
      [] self.tag = "Ptr4" -> Val(Meta("Ptr3", self.key, self.is_type))
      [] self.tag = "Ptr5" -> Val(Meta("Ptr5", self.key, self.is_type))
      [] self.tag = "Ptr6" -> Val(Meta("Ptr5", self.key, self.is_type))
      [] self.tag = "Ptr7" -> Val(Meta("Ptr6", self.key, self.is_type))

unptr_to(self) ==
    CASE self.tag = "Untyped" -> Fail(Unreachable)
      [] self.tag = "NonPtr" -> Fail(Unreachable)
      [] self.tag = "Ptr1" -> Val(Meta("NonPtr", self.key, self.is_type))
      [] self.tag = "Ptr2" -> Val(Meta("Ptr1", self.key, self.is_type))
      [] self.tag = "Ptr3" -> Val(Meta("Ptr2", self.key, self.is_type))
      [] self.tag = "Ptr4" -> Val(Meta("Ptr3", self.key, self.is_type))
      [] self.tag = "Ptr5" -> Val(Meta("Ptr4", self.key, self.is_type))
      [] self.tag = "Ptr6" -> Val(Meta("Ptr5", self.key, self.is_type))
      [] self.tag = "Ptr7" -> Val(Meta("Ptr6", self.key, self.is_type))

\* unwrap_key_and_is_type: <<key, is_type>>, or <<>> where it is unreachable!()
unwrap_key_and_is_type(self) ==
    IF self.tag = "Untyped" THEN <<>> ELSE <<self.key, self.is_type>>

---------------------------------------------------------------------------
(* The registry.  An entry is [t |-> "Int"] for a scalar type and carries   *)
(* the fields of its MetadataType variant otherwise.                        *)

ScalarTypes ==
    << "Bool", "Int", "Int8", "Int16", "Int32", "Int64",
       "Uint", "Uint8", "Uint16", "Uint32", "Uint64",
       "Float32", "Float64", "Complex64", "Complex128" >>

\* SigMetadata::default()
SigMetadata_default ==
    [recv |-> <<>>, params |-> <<>>, results |-> <<>>, variadic |-> <<>>,
     params_type |-> <<>>]

\* Metadata::new: the entries of the scalar types in the order of their
\* insertion, then Str and the default signature.
Metadata_new ==
    [n \in 1..Len(ScalarTypes) |-> [t |-> ScalarTypes[n]]]
    \o << [t |-> "Str", zero |-> [vt |-> "Str", s |-> ""]],
          [t |-> "Signature", sig |-> SigMetadata_default] >>

\* the keys of Metadata.mint and Metadata.mstr
mint == NonPtr(2, FALSE)
mstr == NonPtr(Len(ScalarTypes) + 1, FALSE)

\* metas.insert(v): the registry with v added; its key is the new length
Insert(ms, v) == Append(ms, v)

\* get_value_type with the is_type test left out
get_value_type_untested(self, ms) ==
    IF self.tag = "Untyped" THEN Fail(Unreachable)
    ELSE IF self.tag = "NonPtr"
         THEN LET e == ms[self.key] IN
              Val(IF e.t = "Signature" THEN "Closure" ELSE e.t)
         ELSE Val("Pointer")

\* get_value_type: the ValueType of a handle.  The match on the entry gives
\* each MetadataType the ValueType of its own name, but for Signature.
get_value_type(self, ms) ==
    LET ki == unwrap_key_and_is_type(self) IN
    IF ki = <<>> THEN Fail(Unreachable)
    ELSE IF ki[2] THEN Val("Metadata")
    ELSE IF self.tag = "NonPtr"
         THEN LET e == ms[ki[1]] IN
              CASE e.t \in {ScalarTypes[n] : n \in 1..Len(ScalarTypes)} -> Val(e.t)
                [] e.t = "Str" -> Val("Str")
                [] e.t = "Struct" -> Val("Struct")
                [] e.t = "Signature" -> Val("Closure")
                [] e.t = "Slice" -> Val("Slice")
                [] e.t = "Map" -> Val("Map")
                [] e.t = "Interface" -> Val("Interface")
                [] e.t = "Channel" -> Val("Channel")
                [] e.t = "Named" -> Val("Named")
         ELSE Val("Pointer")

\* a scalar's zero: GosValue::Bool(false), GosValue::Int(0), ..
ScalarZero(t) ==
    IF t = "Bool" THEN [vt |-> "Bool", b |-> FALSE] ELSE [vt |-> t, v |-> 0]

Nil(m) == [vt |-> "Nil", meta |-> m]

RECURSIVE zero_val_impl(_, _)
zero_val_impl(self, mobjs) ==
    IF self.tag = "Untyped" THEN Nil(self)
    ELSE IF self.tag = "NonPtr"
         THEN LET e == mobjs[self.key] IN
              CASE e.t \in {ScalarTypes[n] : n \in 1..Len(ScalarTypes)} -> ScalarZero(e.t)
                [] e.t = "Str" -> e.zero
                [] e.t = "Struct" -> e.zero
                [] e.t \in {"Signature", "Slice", "Map", "Interface", "Channel"} ->
                      Nil(self)
                [] e.t = "Named" ->
                      [vt |-> "Named", val |-> zero_val_impl(e.under, mobjs),
                       meta |-> e.under]
         ELSE Nil(self)

zero_val(self, ms) == zero_val_impl(self, ms)

\* The constructors: the registry they leave and the handle they return.
Made(ms, v) == [metas |-> ms, ret |-> "ok", val |-> v]
NotMade(ms, kind) == [metas |-> ms, ret |-> kind]

GosMetadata_new(v, ms) == Made(Insert(ms, v), NonPtr(Len(ms) + 1, FALSE))

new_slice(val_meta, ms) == GosMetadata_new([t |-> "Slice", elem |-> val_meta], ms)

new_map(kmeta, vmeta, ms) ==
    GosMetadata_new([t |-> "Map", k |-> kmeta, v |-> vmeta], ms)

new_interface(fields, ms) ==
    GosMetadata_new([t |-> "Interface", fields |-> fields], ms)

\* new_struct that leaves the placeholder in the zero instance
new_struct_placeholder(f, ms) ==
    LET field_zeros == [n \in 1..Len(f.fields) |-> zero_val(f.fields[n], ms)]
        struct_val == [vt |-> "Struct", dark |-> FALSE, meta |-> Untyped,
                       fields |-> field_zeros]
    IN GosMetadata_new([t |-> "Struct", fields |-> f, zero |-> struct_val], ms)

new_struct(f, ms) ==
    LET field_zeros == [n \in 1..Len(f.fields) |-> zero_val(f.fields[n], ms)]
        struct_val == [vt |-> "Struct", dark |-> FALSE, meta |-> Untyped,
                       fields |-> field_zeros]
        key == Len(ms) + 1
        gosm == NonPtr(key, FALSE)
        ms1 == Insert(ms, [t |-> "Struct", fields |-> f, zero |-> struct_val])
    IN Made([ms1 EXCEPT ![key].zero.meta = gosm], gosm)

new_sig(recv, params, results, variadic, ms) ==
    LET ptypes == [n \in 1..Len(params) |-> get_value_type(params[n], ms).val]
    IN GosMetadata_new(
           [t |-> "Signature",
            sig |-> [recv |-> recv, params |-> params, results |-> results,
                     variadic |-> variadic, params_type |-> ptypes]], ms)

\* Methods::new()
Methods_new == [members |-> <<>>, mapping |-> <<>>]

\* new_named: the debug_assert! is part of a debug build only
new_named(underlying, ms, b) ==
    IF b = "debug" /\ get_value_type(underlying, ms) = Val("Named")
    THEN NotMade(ms, AssertFailed)
    ELSE GosMetadata_new(
             [t |-> "Named", methods |-> Methods_new, under |-> underlying], ms)

---------------------------------------------------------------------------
(* SpecPtr: a handle to an entry of the registry Metadata::new leaves, and  *)
(* ptr_to and unptr_to applied to it and to their results.  mcall keeps the *)
(* handle the chain started from and the numbers of calls made.             *)

\* the calls of ptr_to and unptr_to in one chain
MaxPtrOps == 14

\* every handle to an entry of ms
Handles(ms) ==
    {Meta(tag, k, t) : tag \in Tags, k \in 1..Len(ms), t \in BOOLEAN}

CodeIdle ==
    /\ code = <<>>
    /\ consts = <<>>
    /\ pre = <<>>
    /\ call = [fn |-> "none"]
    /\ ret = "ok"
    /\ ncalls = 0
    /\ vm = VmIdle

GenIdle == CodeIdle /\ AuxIdle

InitPtr ==
    /\ GenIdle
    /\ metas = Metadata_new
    /\ build = "debug"
    /\ \E m \in Handles(Metadata_new) \cup {Untyped} :
          /\ mcall = [fn |-> "none", origin |-> m, ups |-> 0, downs |-> 0]
          /\ mret = Val(m)

CanChain == mret.ret = "ok" /\ mcall.ups + mcall.downs < MaxPtrOps

PtrTo ==
    /\ CanChain
    /\ mret' = ptr_to(mret.val)
    /\ mcall' = [fn |-> "ptr_to", self |-> mret.val, origin |-> mcall.origin,
                 ups |-> mcall.ups + 1, downs |-> mcall.downs]
    /\ UNCHANGED <<auxVars, genVars, vm, metas, build>>

UnptrTo ==
    /\ CanChain
    /\ mret' = unptr_to(mret.val)
    /\ mcall' = [fn |-> "unptr_to", self |-> mret.val, origin |-> mcall.origin,
                 ups |-> mcall.ups, downs |-> mcall.downs + 1]
    /\ UNCHANGED <<auxVars, genVars, vm, metas, build>>

NextPtr == PtrTo \/ UnptrTo

SpecPtr == InitPtr /\ [][NextPtr]_vars

\* the pointer depth of a typed handle: 0 for NonPtr, n for Ptrn
Depth(m) == IF m.tag = "NonPtr" THEN 0 ELSE CHOOSE n \in 1..Len(PtrTags) : PtrTags[n] = m.tag

IsPtrCall == mcall.fn \in {"ptr_to", "unptr_to"} /\ mcall.origin # Untyped

\* the last call and the chain as a whole kept the key and the is_type flag
SameEntry(a, b) == a.key = b.key /\ a.is_type = b.is_type

\* C8: from a handle m of depth k, ptr_to succeeds below depth 7 and raises
\* the depth by 1, unptr_to lowers it by 1, neither changes the key or the
\* is_type flag; so after as many unptr_to as ptr_to (d of each, d <= 7 - k)
\* the handle is m again.
C8_DepthAlgebra ==
    IsPtrCall =>
        /\ (mcall.fn = "ptr_to" /\ Depth(mcall.self) < 7) => mret.ret = "ok"
        /\ (mcall.fn = "unptr_to" /\ Depth(mcall.self) > 0) => mret.ret = "ok"
        /\ mret.ret = "ok" =>
              /\ SameEntry(mret.val, mcall.self)
              /\ Depth(mret.val) =
                    Depth(mcall.self) + (IF mcall.fn = "ptr_to" THEN 1 ELSE -1)
              /\ SameEntry(mret.val, mcall.origin)
              /\ Depth(mret.val) = Depth(mcall.origin) + mcall.ups - mcall.downs
              /\ mcall.ups = mcall.downs => mret.val = mcall.origin

\* a type's handle (is_type set) of depth 0 raised to depth 7 and brought
\* back by 7 calls of unptr_to
C8_Witness ==
    /\ mcall.fn = "unptr_to"
    /\ mcall.origin = NonPtr(16, TRUE)
    /\ mcall.self.tag = "Ptr1"
    /\ mcall.ups = 7 /\ mcall.downs = 7
    /\ mret = Val(mcall.origin)

AtDepthBound ==
    /\ IsPtrCall
    /\ \/ mcall.fn = "ptr_to" /\ mcall.self.tag = "Ptr7"
       \/ mcall.fn = "unptr_to" /\ mcall.self.tag = "NonPtr"

\* C9 as the specification states it: at the bounds of the depth, ptr_to and
\* unptr_to end with the error TypeError.
C9_FailsWithTypeError == AtDepthBound => mret.ret = "TypeError"

\* C9: ptr_to of a handle of depth 7 and unptr_to of a handle of depth 0
\* panic in unreachable!(): they return no handle, and no other depth.
C9_PanicsAtBounds == AtDepthBound => mret = Fail(Unreachable)

\* the 8th ptr_to in a row from depth 0
C9_Witness ==
    /\ mcall.fn = "ptr_to"
    /\ mcall.self.tag = "Ptr7"
    /\ Depth(mcall.origin) = 0 /\ mcall.ups = 8 /\ mcall.downs = 0
    /\ mret.ret = Unreachable

---------------------------------------------------------------------------
(* SpecMeta: the registry Metadata::new leaves, grown by the constructors,  *)
(* and get_value_type asked of the handles to its entries.                  *)

\* the entries the constructors add to those of Metadata::new, in SpecMeta
MaxNew == 1

\* The handles given to the constructors: Metadata.mint, and the handles of
\* depth 0 and 1 to the entry made last.
ArgHandles(ms) ==
    {mint} \cup
    (IF Len(ms) > Len(Metadata_new)
     THEN {NonPtr(Len(ms), FALSE), NonPtr(Len(ms), TRUE), Meta("Ptr1", Len(ms), FALSE)}
     ELSE {})

\* Fields::new(fields, mapping) of no field and of one field named "f"
FieldLists(ms) ==
    {[fields |-> <<>>, mapping |-> <<>>]}
    \cup {[fields |-> <<m>>, mapping |-> [n \in {"f"} |-> 0]] : m \in ArgHandles(ms)}

InitMeta ==
    /\ GenIdle
    /\ metas = Metadata_new
    /\ build \in {"debug", "release"}
    /\ mcall = [fn |-> "none"]
    /\ mret = [ret |-> "ok"]

\* the constructors, and "none" for the registry of Metadata::new
Makers ==
    {"none", "new_slice", "new_map", "new_interface", "new_struct", "new_sig",
     "new_named", "new_channel"}

\* a constructor is called while fewer than n entries were added
CanMake(n) ==
    /\ mret.ret = "ok" /\ mcall.fn \in Makers
    /\ Len(metas) < Len(Metadata_new) + n

\* the effect of a constructor call
Constructed(r, c) ==
    /\ metas' = r.metas
    /\ mret' = IF r.ret = "ok" THEN Val(r.val) ELSE Fail(r.ret)
    /\ mcall' = c
    /\ UNCHANGED <<auxVars, genVars, vm, build>>

NewSlice(n) ==
    \E m \in ArgHandles(metas) :
        /\ CanMake(n)
        /\ Constructed(new_slice(m, metas), [fn |-> "new_slice", val_meta |-> m])

NewMap(n) ==
    \E m \in ArgHandles(metas) :
        /\ CanMake(n)
        /\ Constructed(new_map(mstr, m, metas),
                       [fn |-> "new_map", kmeta |-> mstr, vmeta |-> m])

NewInterface(n) ==
    \E f \in FieldLists(metas) :
        /\ CanMake(n)
        /\ Constructed(new_interface(f, metas), [fn |-> "new_interface", fields |-> f])

NewStruct(n) ==
    \E f \in FieldLists(metas) :
        /\ CanMake(n)
        /\ Constructed(new_struct(f, metas), [fn |-> "new_struct", f |-> f])

NewSig(n) ==
    \E f \in FieldLists(metas) :
        /\ CanMake(n)
        /\ Constructed(new_sig(<<>>, f.fields, <<>>, <<>>, metas),
                       [fn |-> "new_sig", params |-> f.fields])

NewNamed(n) ==
    \E m \in ArgHandles(metas) :
        /\ CanMake(n)
        /\ Constructed(new_named(m, metas, build), [fn |-> "new_named", underlying |-> m])

\* GosMetadata::new(MetadataType::Channel, metas)
NewChannel(n) ==
    /\ CanMake(n)
    /\ Constructed(GosMetadata_new([t |-> "Channel"], metas), [fn |-> "new_channel"])

\* a question asked of the registry the constructors have built; it leaves
\* the registry as it is
CanAsk == mret.ret \notin PanicKinds /\ mcall.fn \in Makers

GetValueType ==
    \E m \in Handles(metas) \cup {Untyped} :
        /\ CanAsk
        /\ mret' = get_value_type(m, metas)
        /\ mcall' = [fn |-> "get_value_type", self |-> m]
        /\ UNCHANGED <<auxVars, genVars, vm, metas, build>>

NextMeta ==
    \/ NewSlice(MaxNew)
    \/ NewMap(MaxNew)
    \/ NewInterface(MaxNew)
    \/ NewStruct(MaxNew)
    \/ NewSig(MaxNew)
    \/ NewNamed(MaxNew)
    \/ NewChannel(MaxNew)
    \/ GetValueType

SpecMeta == InitMeta /\ [][NextMeta]_vars

\* C10: get_value_type of a typed handle is Metadata when is_type is set, at
\* every depth; else Pointer at the depths 1..7, and at depth 0 the tag of
\* the entry: the entry's own name, and Closure for a Signature.
C10_ValueType ==
    (mcall.fn = "get_value_type" /\ mcall.self # Untyped) =>
        LET m == mcall.self
            e == metas[m.key]
        IN mret = Val(IF m.is_type THEN "Metadata"
                      ELSE IF Depth(m) >= 1 THEN "Pointer"
                      ELSE IF e.t = "Signature" THEN "Closure"
                      ELSE e.t)

\* the type of a named type, behind 7 pointers and reified: Metadata
C10_Witness ==
    /\ mcall.fn = "get_value_type"
    /\ mcall.self.tag = "Ptr7" /\ mcall.self.is_type
    /\ metas[mcall.self.key].t = "Named"
    /\ mret = Val("Metadata")

---------------------------------------------------------------------------
(* get_underlying and default_val.                                          *)

get_underlying(self, ms) ==
    IF self.tag = "NonPtr"
    THEN LET e == ms[self.key] IN
         IF e.t = "Named" THEN e.under ELSE self
    ELSE self

\* GosValue::new_slice(0, 0, None, slices), GosValue::new_map(default, maps):
\* a new object of no element
EmptySlice == [vt |-> "Slice", len |-> 0, cap |-> 0]
EmptyMap(dv) == [vt |-> "Map", len |-> 0, default |-> dv]

RECURSIVE default_val(_, _)
default_val(self, mobjs) ==
    IF self.tag = "NonPtr"
    THEN LET e == mobjs[self.key] IN
         CASE e.t \in {ScalarTypes[n] : n \in 1..Len(ScalarTypes)} -> Val(ScalarZero(e.t))
           [] e.t = "Str" -> Val(e.zero)
           [] e.t = "Struct" -> Val(e.zero)
           [] e.t = "Signature" -> Fail(NotImplemented)
           [] e.t = "Slice" -> Val(EmptySlice)
           [] e.t = "Map" -> Val(EmptyMap(zero_val_impl(e.v, mobjs)))
           [] e.t = "Interface" -> Fail(NotImplemented)
           [] e.t = "Channel" -> Fail(NotImplemented)
           [] e.t = "Named" ->
                 (LET val == default_val(e.under, mobjs) IN
                  IF val.ret = "ok"
                  THEN Val([vt |-> "Named", val |-> val.val, meta |-> e.under])
                  ELSE val)
    ELSE Fail(Unreachable)

---------------------------------------------------------------------------
(* SpecTypes: the registry grown by up to MaxDeep constructor calls, each   *)
(* of which may use the entry made before it, and get_underlying, zero_val  *)
(* and default_val asked of the handles to its entries.                     *)

\* the entries the constructors add to those of Metadata::new, in SpecTypes
MaxDeep == 2

\* The handles the questions are asked of: Untyped, and the handles of depth
\* 0 and 1 to Int, to Str and to the entries the constructors made.
AskHandles(ms) ==
    {Untyped} \cup
    {Meta(tag, k, t) : tag \in {"NonPtr", "Ptr1"},
                       k \in {mint.key, mstr.key} \cup (Len(Metadata_new) + 1)..Len(ms),
                       t \in BOOLEAN}

Asked(r, c) ==
    /\ CanAsk
    /\ mret' = r
    /\ mcall' = c
    /\ UNCHANGED <<auxVars, genVars, vm, metas, build>>

GetUnderlying ==
    \E m \in AskHandles(metas) :
        Asked(Val(get_underlying(m, metas)),
              [fn |-> "get_underlying", self |-> m, nth |-> 1])

\* get_underlying of the handle get_underlying returned
GetUnderlyingAgain ==
    /\ mcall.fn = "get_underlying" /\ mcall.nth = 1
    /\ mret' = Val(get_underlying(mret.val, metas))
    /\ mcall' = [fn |-> "get_underlying", self |-> mret.val, nth |-> 2]
    /\ UNCHANGED <<auxVars, genVars, vm, metas, build>>

ZeroVal ==
    \E m \in AskHandles(metas) :
        Asked(Val(zero_val(m, metas)), [fn |-> "zero_val", self |-> m])

DefaultVal ==
    \E m \in AskHandles(metas) :
        Asked(default_val(m, metas), [fn |-> "default_val", self |-> m])

NextTypes ==
    \/ NewSlice(MaxDeep)
    \/ NewMap(MaxDeep)
    \/ NewInterface(MaxDeep)
    \/ NewStruct(MaxDeep)
    \/ NewSig(MaxDeep)
    \/ NewNamed(MaxDeep)
    \/ NewChannel(MaxDeep)
    \/ GetUnderlying
    \/ GetUnderlyingAgain
    \/ ZeroVal
    \/ DefaultVal

SpecTypes == InitMeta /\ [][NextTypes]_vars

\* a depth-0 handle to a Named entry of the registry
IsNamedHandle(m, ms) == m.tag = "NonPtr" /\ ms[m.key].t = "Named"

\* C11: get_underlying of a depth-0 handle to a Named entry is the wrapped
\* handle and of every other handle the handle itself, and get_underlying of
\* what get_underlying returned returns it again.
C11_UnderlyingIdempotent ==
    mcall.fn = "get_underlying" =>
        /\ mret.val = (IF IsNamedHandle(mcall.self, metas)
                       THEN metas[mcall.self.key].under ELSE mcall.self)
        /\ mcall.nth = 2 => mret.val = mcall.self

\* get_underlying asked a second time of a named type that wraps a named
\* type: it returns the inner type's underlying handle, another handle
C11_Witness ==
    /\ mcall.fn = "get_underlying" /\ mcall.nth = 2
    /\ IsNamedHandle(mcall.self, metas)
    /\ mret.val # mcall.self

\* C12: no Named entry of the registry wraps a depth-0 handle to a Named
\* entry, whatever the handle's is_type flag; new_named of such a handle
\* fails and adds no entry.
C12_NamedNeverWrapsNamed ==
    /\ \A k \in 1..Len(metas) :
          metas[k].t = "Named" => ~IsNamedHandle(metas[k].under, metas)
    /\ (mcall.fn = "new_named" /\ IsNamedHandle(mcall.underlying, metas)) =>
          mret.ret # "ok"

\* new_named of the reified handle (is_type set) of a named type, in a debug
\* build: the assertion passes and the entry is added
C12_Witness ==
    /\ build = "debug"
    /\ mcall.fn = "new_named" /\ mret.ret = "ok"
    /\ IsNamedHandle(mcall.underlying, metas) /\ mcall.underlying.is_type
    /\ metas[mret.val.key].under = mcall.underlying

\* C13: zero_val of a depth-0 handle mT to a Named entry over mU is the
\* Named value of zero_val(mU) and of mT, the handle of the named type.
C13_NamedZeroCarriesOwnMeta ==
    (mcall.fn = "zero_val" /\ IsNamedHandle(mcall.self, metas)) =>
        mret = Val([vt |-> "Named",
                    val |-> zero_val(metas[mcall.self.key].under, metas),
                    meta |-> mcall.self])

\* zero_val of `type T int`: Named(Int(0), ..) with the handle of Int
C13_Witness ==
    /\ mcall.fn = "zero_val" /\ IsNamedHandle(mcall.self, metas)
    /\ metas[mcall.self.key].under = mint
    /\ mret = Val([vt |-> "Named", val |-> [vt |-> "Int", v |-> 0], meta |-> mint])

\* C14: the zero instance stored with a struct's entry carries the struct's
\* own handle, NonPtr of its key with is_type unset, when new_struct returns
\* and ever after, never Untyped; and it has one value per field, the
\* zero_val of the field's handle.
C14_StructSelfReference ==
    /\ \A k \in 1..Len(metas) :
          metas[k].t = "Struct" =>
              /\ metas[k].zero.meta = NonPtr(k, FALSE)
              /\ Len(metas[k].zero.fields) = Len(metas[k].fields.fields)
              /\ \A n \in 1..Len(metas[k].fields.fields) :
                    metas[k].zero.fields[n] =
                        zero_val(metas[k].fields.fields[n], metas)
    /\ mcall.fn = "new_struct" =>
          /\ mret = Val(NonPtr(Len(metas), FALSE))
          /\ metas[Len(metas)].t = "Struct"
          /\ metas[Len(metas)].fields = mcall.f
          /\ metas[Len(metas)].zero.meta = mret.val

\* a struct with one field whose type is the struct made before it
C14_Witness ==
    /\ mcall.fn = "new_struct" /\ mret.ret = "ok"
    /\ Len(mcall.f.fields) = 1
    /\ mcall.f.fields[1].tag = "NonPtr"
    /\ metas[mcall.f.fields[1].key].t = "Struct"
    /\ metas[mret.val.key].zero.meta = mret.val
    /\ metas[mret.val.key].zero.fields[1].meta = NonPtr(mcall.f.fields[1].key, FALSE)

\* the kind of a handle as default_val sees it: Pointer at a depth of 1 or
\* more, the entry's kind at depth 0, and through Named the kind of what it
\* wraps
RECURSIVE KindOf(_, _)
KindOf(m, ms) ==
    IF m.tag = "Untyped" THEN "Untyped"
    ELSE IF m.tag # "NonPtr" THEN "Pointer"
    ELSE IF ms[m.key].t = "Named" THEN KindOf(ms[m.key].under, ms)
    ELSE ms[m.key].t

\* C16: default_val is a new empty slice for a Slice handle and a new empty
\* map for a Map handle, fails with NotImplemented for Interface and
\* Channel handles, and is zero_val for scalars, Str, Struct, Signature,
\* pointers and the named types over these.
C16_DefaultVal ==
    mcall.fn = "default_val" =>
        LET m == mcall.self
            t == IF m.tag = "NonPtr" THEN metas[m.key].t ELSE "Pointer"
        IN /\ t = "Slice" => mret = Val(EmptySlice)
           /\ t = "Map" => mret.ret = "ok" /\ mret.val.vt = "Map" /\ mret.val.len = 0
           /\ t \in {"Interface", "Channel"} => mret = Fail(NotImplemented)
           /\ KindOf(m, metas) \notin {"Untyped", "Slice", "Map", "Interface", "Channel"}
                 => mret = Val(zero_val(m, metas))

\* default_val of a pointer to Int: unreachable!(), where zero_val is Nil
C16_Witness ==
    /\ mcall.fn = "default_val"
    /\ mcall.self = Meta("Ptr1", mint.key, FALSE)
    /\ mret = Fail(Unreachable)
    /\ zero_val(mcall.self, metas) = Nil(mcall.self)

---------------------------------------------------------------------------
(* emit_load of the entities that are not integer constants.                *)

\* C17: emit_load of a non-Blank entity appends exactly one instruction and
\* leaves the earlier ones alone: PUSH_TRUE or PUSH_FALSE, with no type and
\* no immediate, for a Bool constant; LOAD_LOCAL(typ, i), LOAD_UPVALUE(typ,
\* i), LOAD_THIS_PKG_FIELD(typ, i) for LocalVar(i), UpValue(i),
\* PackageMember(i); the opcode alone for BuiltIn(op).  emit_load(Blank)
\* fails and appends nothing.
C17_LoadEntities ==
    call.fn = "emit_load" =>
        LET index == call.index
            k == const_val(consts, index.i)
            one(op) == Inst(op, call.typ, NoType, NoType, <<index.i>>)
            bare(op) == Inst(op, NoType, NoType, NoType, <<>>)
        IN IF index.kind = "Blank"
           THEN ret = Unreachable /\ code = pre
           ELSE /\ ret = "ok"
                /\ Appended(1)
                /\ (index.kind = "Const" /\ k.vt = "Bool") =>
                      LastInst = bare(IF k.b THEN "PUSH_TRUE" ELSE "PUSH_FALSE")
                /\ index.kind = "LocalVar" => LastInst = one("LOAD_LOCAL")
                /\ index.kind = "UpValue" => LastInst = one("LOAD_UPVALUE")
                /\ index.kind = "PackageMember" =>
                      LastInst = one("LOAD_THIS_PKG_FIELD")
                /\ index.kind = "BuiltIn" => LastInst = bare(index.op)

\* an up-value loaded after the constant false
C17_Witness ==
    /\ call.fn = "emit_load" /\ call.index = Ent("UpValue", 1)
    /\ Len(pre) = 1 /\ pre[1].op = "PUSH_FALSE" /\ pre[1].t0 = NoType
    /\ LastInst = Inst("LOAD_UPVALUE", call.typ, NoType, NoType, <<1>>)

---------------------------------------------------------------------------
(* The method table of a named type: add_method and method_index.           *)

\* the panic of indexing a HashMap by a key it does not hold
NoEntry == "no entry found for key"

\* recv_meta_key: the key of a handle of depth 0 or 1, <<>> where it is
\* unreachable!()
recv_meta_key(self) ==
    IF self.tag \in {"NonPtr", "Ptr1"} THEN <<self.key>> ELSE <<>>

\* MethodDesc { pointer_recv, func: None }
MethodDesc(pointer_recv) == [pointer_recv |-> pointer_recv, func |-> <<>>]

\* m.mapping.insert(name, index)
MapInsert(mapping, name, index) ==
    [n \in DOMAIN mapping \cup {name} |-> IF n = name THEN index ELSE mapping[n]]

add_method(self, name, pointer_recv, ms) ==
    LET k == recv_meta_key(self) IN
    IF k = <<>> THEN NotMade(ms, Unreachable)
    ELSE IF ms[k[1]].t # "Named" THEN NotMade(ms, Unreachable)
    ELSE LET m == ms[k[1]].methods
             members == Append(m.members, MethodDesc(pointer_recv))
             mapping == MapInsert(m.mapping, name, Len(members) - 1)
         IN [metas |-> [ms EXCEPT ![k[1]].methods =
                            [members |-> members, mapping |-> mapping]],
             ret |-> "ok"]

\* get_named_metadate: <<methods, underlying>>, <<>> where it is unreachable!()
get_named_metadate(self, ms) ==
    LET k == recv_meta_key(self) IN
    IF k = <<>> THEN <<>>
    ELSE IF ms[k[1]].t # "Named" THEN <<>>
    ELSE <<ms[k[1]].methods, ms[k[1]].under>>

method_index(self, name, ms) ==
    LET md == get_named_metadate(self, ms) IN
    IF md = <<>> THEN Fail(Unreachable)
    ELSE IF name \in DOMAIN md[1].mapping THEN Val(md[1].mapping[name])
    ELSE Fail(NoEntry)

\* the methods added to the named type, in SpecMethods
MaxMethods == 3

MethodNames == {"a", "b", "c"}

\* the named type `type T int`, the first entry after those of Metadata::new
NamedT == NonPtr(Len(Metadata_new) + 1, FALSE)

\* the receivers: T, *T, the reified *T, and **T and Int, which have no
\* method table
Receivers ==
    {NamedT, Meta("Ptr1", NamedT.key, FALSE), Meta("Ptr1", NamedT.key, TRUE),
     Meta("Ptr2", NamedT.key, FALSE), mint}

\* mcall.first keeps, for each name, the index method_index returned for it
\* first, and -1 before that
InitMethods ==
    /\ GenIdle
    /\ build = "debug"
    /\ metas = new_named(mint, Metadata_new, build).metas
    /\ mcall = [fn |-> "new_named", underlying |-> mint,
                first |-> [n \in MethodNames |-> -1]]
    /\ mret = Val(NamedT)

MemberCount == Len(metas[NamedT.key].methods.members)

AddMethod ==
    \E self \in Receivers, name \in MethodNames, pointer_recv \in BOOLEAN :
        LET r == add_method(self, name, pointer_recv, metas) IN
        /\ mret.ret = "ok" /\ MemberCount < MaxMethods
        /\ metas' = r.metas
        /\ mret' = [ret |-> r.ret]
        /\ mcall' = [fn |-> "add_method", self |-> self, name |-> name,
                     n |-> MemberCount, first |-> mcall.first]
        /\ UNCHANGED <<auxVars, genVars, vm, build>>

MethodIndex ==
    \E self \in Receivers, name \in MethodNames :
        LET r == method_index(self, name, metas) IN
        /\ mret.ret = "ok"
        /\ mret' = r
        /\ mcall' = [fn |-> "method_index", self |-> self, name |-> name,
                     after_add |-> (mcall.fn = "add_method" /\ mcall.name = name),
                     n |-> IF mcall.fn = "add_method" THEN mcall.n ELSE -1,
                     first |-> IF r.ret = "ok" /\ mcall.first[name] = -1
                               THEN [mcall.first EXCEPT ![name] = r.val]
                               ELSE mcall.first]
        /\ UNCHANGED <<auxVars, genVars, vm, metas, build>>

NextMethods == AddMethod \/ MethodIndex

SpecMethods == InitMethods /\ [][NextMethods]_vars

\* C15: method_index(name) right after add_method(name, ..) on a named type
\* of n methods returns n; method_index of a name returns what it returned
\* for that name first, whatever add_method calls came between, a repeated
\* name among them; every value of the mapping is an index into members.
C15_MethodTableStable ==
    /\ LET m == metas[NamedT.key].methods IN
       \A name \in DOMAIN m.mapping :
           m.mapping[name] >= 0 /\ m.mapping[name] < Len(m.members)
    /\ (mcall.fn = "method_index" /\ mret.ret = "ok") =>
          /\ mcall.after_add => mret.val = mcall.n
          /\ mret.val = mcall.first[mcall.name]

\* "a" was added, asked (index 0), added again and asked again: index 1
C15_Witness ==
    /\ mcall.fn = "method_index" /\ mcall.name = "a" /\ mcall.after_add
    /\ mcall.first["a"] = 0
    /\ mret = Val(1)
    /\ MemberCount = 2

---------------------------------------------------------------------------
(* codegen/src/func.rs: add_params.  The AST is an arena of idents and of   *)
(* fields; a field list is a sequence of keys of fields, a field's names a  *)
(* sequence of keys of idents.                                              *)

\* IdentEntity
NoEntity == [kind |-> "NoEntity"]
Sentinel == [kind |-> "Sentinel"]
Entity(k) == [kind |-> "Entity", key |-> k]

\* IdentEntity::into_key: Some(key) of an Entity, None otherwise
into_key(e) == IF e.kind = "Entity" THEN <<e.key>> ELSE <<>>

\* the idents and the fields of the AST: a field of no name, of one name, of
\* two names, and of one name that has no entity
AstIdents ==
    << [name |-> "a", entity |-> Entity(1)], [name |-> "b", entity |-> Entity(2)],
       [name |-> "c", entity |-> NoEntity] >>
AstFields ==
    << [names |-> <<>>], [names |-> <<1>>], [names |-> <<1, 2>>],
       [names |-> <<3>>] >>
AstObjects == [idents |-> AstIdents, fields |-> AstFields]

\* FunctionVal::add_local(entity, typ): the locals with one more
add_local(ls, entity) == Append(ls, entity)

\* names.iter().map(|n| add_local(..)).count()
RECURSIVE add_names(_, _, _)
add_names(ls, names, o) ==
    IF names = <<>> THEN [locals |-> ls, n |-> 0]
    ELSE LET ident == o.idents[Head(names)]
             r == add_names(add_local(ls, into_key(ident.entity)), Tail(names), o)
         IN [locals |-> r.locals, n |-> r.n + 1]

\* add_field that adds no local for a field without names
add_field_skip_unnamed(ls, f, o) ==
    LET names == o.fields[f].names IN
    IF Len(names) = 0 THEN [locals |-> ls, n |-> 1]
    ELSE add_names(ls, names, o)

\* the closure of add_params applied to the field f
add_field(ls, f, o) ==
    LET names == o.fields[f].names IN
    IF Len(names) = 0 THEN [locals |-> add_local(ls, <<>>), n |-> 1]
    ELSE add_names(ls, names, o)

\* fl.list.iter().map(..).sum()
RECURSIVE add_fields(_, _, _)
add_fields(ls, list, o) ==
    IF list = <<>> THEN [locals |-> ls, n |-> 0]
    ELSE LET r == add_field(ls, Head(list), o)
             rest == add_fields(r.locals, Tail(list), o)
         IN [locals |-> rest.locals, n |-> r.n + rest.n]

\* add_params: the locals it leaves and the Result it returns
add_params(ls, fl, o) ==
    LET r == add_fields(ls, fl, o) IN [locals |-> r.locals, result |-> <<"Ok", r.n>>]

\* the add_params calls on one function, in SpecParams
MaxParamCalls == 2
\* the fields of a field list
MaxFields == 2

ParamLists ==
    UNION {[1..n -> 1..Len(AstFields)] : n \in 0..MaxFields}

AddParams ==
    \E fl \in ParamLists :
        LET r == add_params(locals, fl, AstObjects) IN
        /\ ncalls < MaxParamCalls
        /\ locals' = r.locals
        /\ call' = [fn |-> "add_params", fl |-> fl, before |-> locals,
                    result |-> r.result]
        /\ ncalls' = ncalls + 1
        /\ UNCHANGED <<code, consts, pre, ret, vm, metaVars, parser, std>>

NextParams == AddParams

SpecParams == Init /\ [][NextParams]_vars

\* the symbols of the locals of a field, as the field list declares them
SlotsOf(f) ==
    LET names == AstFields[f].names IN
    IF names = <<>> THEN << <<>> >>
    ELSE [k \in 1..Len(names) |-> into_key(AstIdents[names[k]].entity)]

RECURSIVE SlotsOfList(_)
SlotsOfList(fl) == IF fl = <<>> THEN <<>> ELSE SlotsOf(Head(fl)) \o SlotsOfList(Tail(fl))

\* C18: add_params appends to the locals, in the order of the field list,
\* one local per name of a field and one anonymous local per field without
\* names, and returns Ok(n), n the number of locals it added; never Err.
C18_AddParams ==
    call.fn = "add_params" =>
        /\ locals = call.before \o SlotsOfList(call.fl)
        /\ call.result = <<"Ok", Len(locals) - Len(call.before)>>

\* (x, y T1, T2) after an earlier call: three locals, the last anonymous
C18_Witness ==
    /\ call.fn = "add_params" /\ call.fl = <<3, 1>>
    /\ Len(call.before) > 0
    /\ call.result = <<"Ok", 3>>
    /\ SubSeq(locals, Len(call.before) + 1, Len(locals)) = << <<1>>, <<2>>, <<>> >>

---------------------------------------------------------------------------
(* src/parser.rs: the scopes of the parser and short_var_decl.              *)
(* parser.scopes is the chain of scopes from the outermost to top_scope,    *)
(* each a function from names to entities; an entity is the number of its   *)
(* creation by new_entity!.  The lhs of an assignment is a sequence of      *)
(* [kind |-> "Ident", name |-> ..] and [kind |-> "Other"] (any expression   *)
(* that is not an identifier).                                              *)

\* Option::unwrap of None
UnwrapNone == "called Option::unwrap() on a None value"

NoNewVariables == <<"no new variables on left side of :=">>

\* error_expected: "expected " and msg, and what was found when the error
\* is at the parser's position; tok is <<>> away from it, else <<token>>
error_expected(tok, msg) ==
    <<"expected ", msg>> \o
    (IF tok = <<>> THEN <<>>
     ELSE IF tok[1].t = "SEMICOLON"
          THEN (IF ~tok[1].real THEN <<", found newline">> ELSE <<>>)
          ELSE <<", found ", tok[1].t>>)

\* Scope::insert(name, entity): the scope it leaves.  It returns the entity
\* the name had; whether the scope then keeps that entity (as go/ast's
\* Scope.Insert) or takes the new one (as HashMap::insert) is `keeps`.
Scope_insert(scope, name, entity, keeps) ==
    IF name \in DOMAIN scope /\ keeps THEN scope ELSE MapInsert(scope, name, entity)

\* the arm Expr::Ident with a blank that counts as a new variable
svd_ident_counts_blank(st, name, keeps) ==
    LET entity == st.nent + 1
        st1 == [st EXCEPT !.nent = entity, !.bound = Append(@, entity)]
        top == st.scopes[Len(st.scopes)]
    IN IF name = "_" THEN [st1 EXCEPT !.n = @ + 1]
       ELSE IF st.scopes = <<>> THEN [st1 EXCEPT !.ret = UnwrapNone]
       ELSE IF name \in DOMAIN top
            THEN [st1 EXCEPT !.bound[Len(st1.bound)] = top[name],
                             !.scopes[Len(st.scopes)] =
                                 Scope_insert(top, name, entity, keeps)]
            ELSE [st1 EXCEPT !.scopes[Len(st.scopes)] =
                                 Scope_insert(top, name, entity, keeps),
                             !.n = @ + 1]

\* the arm Expr::Ident of short_var_decl's loop
svd_ident(st, name, keeps) ==
    LET entity == st.nent + 1
        st1 == [st EXCEPT !.nent = entity, !.bound = Append(@, entity)]
        top == st.scopes[Len(st.scopes)]
    IN IF name = "_" THEN st1
       ELSE IF st.scopes = <<>> THEN [st1 EXCEPT !.ret = UnwrapNone]
       ELSE IF name \in DOMAIN top
            THEN [st1 EXCEPT !.bound[Len(st1.bound)] = top[name],
                             !.scopes[Len(st.scopes)] =
                                 Scope_insert(top, name, entity, keeps)]
            ELSE [st1 EXCEPT !.scopes[Len(st.scopes)] =
                                 Scope_insert(top, name, entity, keeps),
                             !.n = @ + 1]

\* the other arm: an error, and no entity (0) for the expression
svd_other(st, tok) ==
    [st EXCEPT !.errors = Append(@, error_expected(tok, "identifier on left side of :=")),
               !.bound = Append(@, 0)]

\* the loop over the lhs; a panic ends it
RECURSIVE svd_loop(_, _, _, _)
svd_loop(st, list, tok, keeps) ==
    IF list = <<>> \/ st.ret # "ok" THEN st
    ELSE svd_loop(IF Head(list).kind = "Ident"
                  THEN svd_ident(st, Head(list).name, keeps)
                  ELSE svd_other(st, tok),
                  Tail(list), tok, keeps)

short_var_decl(p, list, tok) ==
    LET st0 == [scopes |-> p.scopes, nent |-> p.nent, errors |-> p.errors,
                n |-> 0, bound |-> <<>>, ret |-> "ok"]
        st == svd_loop(st0, list, tok, p.keeps)
    IN IF st.ret = "ok" /\ st.n = 0
       THEN [st EXCEPT !.errors = Append(@, NoNewVariables)]
       ELSE st

\* open_scope, close_scope
open_scope(p) == [p EXCEPT !.scopes = Append(@, <<>>)]
close_scope(p) ==
    IF p.scopes = <<>> THEN [p EXCEPT !.ret = UnwrapNone]
    ELSE [p EXCEPT !.scopes = SubSeq(@, 1, Len(@) - 1)]

\* the statements parsed and the scopes open at a time, in SpecParser
MaxStmts == 3
MaxScopes == 2

Ident(name) == [kind |-> "Ident", name |-> name]
Other == [kind |-> "Other"]
\* the lhs of the statements: x, y, _, an expression alone, and pairs with
\* a second name, a repeated name, a blank, and an expression
LhsLists ==
    {<<Ident("x")>>, <<Ident("y")>>, <<Ident("_")>>, <<Other>>,
     <<Ident("x"), Ident("y")>>, <<Ident("x"), Ident("x")>>,
     <<Ident("_"), Ident("x")>>, <<Ident("_"), Ident("_")>>,
     <<Other, Ident("y")>>}

\* the parser's token where error_expected looks at it
Toks ==
    {<<>>, <<[t |-> "SEMICOLON", real |-> FALSE]>>,
     <<[t |-> "SEMICOLON", real |-> TRUE]>>, <<[t |-> ":="]>>}

InitParser ==
    /\ CodeIdle
    /\ MetaIdle
    /\ locals = <<>>
    /\ std = StdIdle
    /\ \E keeps \in BOOLEAN :
          parser = [on |-> TRUE, scopes |-> <<>>, nent |-> 0, errors |-> <<>>,
                    keeps |-> keeps, nstmts |-> 0, ret |-> "ok",
                    call |-> [fn |-> "none"], bound |-> <<>>]

Parsed(p) ==
    /\ parser.ret = "ok"
    /\ parser' = p
    /\ UNCHANGED <<genVars, vm, metaVars, locals, std>>

OpenScope ==
    /\ Len(parser.scopes) < MaxScopes
    /\ Parsed([open_scope(parser) EXCEPT !.call = [fn |-> "open_scope"]])

CloseScope ==
    Parsed([close_scope(parser) EXCEPT !.call = [fn |-> "close_scope"]])

ShortVarDecl ==
    \E list \in LhsLists, tok \in Toks :
        LET st == short_var_decl(parser, list, tok) IN
        /\ parser.nstmts < MaxStmts
        /\ Parsed([parser EXCEPT
                     !.scopes = st.scopes, !.nent = st.nent, !.errors = st.errors,
                     !.ret = st.ret, !.bound = st.bound, !.nstmts = @ + 1,
                     !.call = [fn |-> "short_var_decl", lhs |-> list,
                               scopes |-> parser.scopes,
                               errors |-> parser.errors, nent |-> parser.nent]])

NextParser == OpenScope \/ CloseScope \/ ShortVarDecl

SpecParser == InitParser /\ [][NextParser]_vars

\* the last call was short_var_decl, of identifiers only, in an open scope
IsShortVarDecl ==
    /\ parser.on /\ parser.call.fn = "short_var_decl"
    /\ \A i \in 1..Len(parser.call.lhs) : parser.call.lhs[i].kind = "Ident"
    /\ parser.call.scopes # <<>>

\* the errors the last call reported
NewErrors ==
    {parser.errors[i] : i \in (Len(parser.call.errors) + 1)..Len(parser.errors)}

\* C19: short_var_decl of identifiers reports "no new variables on left side
\* of :=" exactly when every lhs identifier that is not blank was in the
\* innermost scope before; the blank is never inserted; an identifier that
\* was in the innermost scope is bound to the entity it had there (and one
\* that occurs a second time in the lhs to an entity of its earlier
\* occurrence); a new one gets a new entity and is inserted into the
\* innermost scope, and the outer scopes stay as they were.
C19_ShortVarDecl ==
    /\ parser.on =>
          \A i \in 1..Len(parser.scopes) : "_" \notin DOMAIN parser.scopes[i]
    /\ (IsShortVarDecl /\ parser.ret = "ok") =>
          LET lhs == parser.call.lhs
              before == parser.call.scopes
              d == Len(before)
              names == {lhs[i].name : i \in 1..Len(lhs)} \ {"_"}
          IN /\ (NoNewVariables \in NewErrors) <=> (names \subseteq DOMAIN before[d])
             /\ NewErrors \subseteq {NoNewVariables}
             /\ \A i \in 1..Len(lhs) :
                   LET name == lhs[i].name
                       earlier == {j \in 1..(i - 1) : lhs[j].name = name}
                       fresh(j) == parser.call.nent + j
                   IN IF name = "_" THEN parser.bound[i] = fresh(i)
                      ELSE IF earlier # {}
                      THEN \E j \in earlier :
                               parser.bound[i] \in {parser.bound[j], fresh(j)}
                      ELSE IF name \in DOMAIN before[d]
                      THEN parser.bound[i] = before[d][name]
                      ELSE parser.bound[i] = fresh(i)
             /\ Len(parser.scopes) = d
             /\ DOMAIN parser.scopes[d] = DOMAIN before[d] \cup names
             /\ SubSeq(parser.scopes, 1, d - 1) = SubSeq(before, 1, d - 1)

\* `x, y := ..` in an inner scope that has x, while the outer scope has y:
\* x keeps its entity, y is new in the inner scope, and no error is reported
C19_Witness ==
    /\ IsShortVarDecl /\ parser.ret = "ok"
    /\ parser.call.lhs = <<Ident("x"), Ident("y")>>
    /\ Len(parser.call.scopes) = 2
    /\ "y" \in DOMAIN parser.call.scopes[1]
    /\ DOMAIN parser.call.scopes[2] = {"x"}
    /\ parser.bound[1] = parser.call.scopes[2]["x"]
    /\ parser.bound[2] = parser.nent
    /\ parser.errors = <<>>

---------------------------------------------------------------------------
(* engine/src/std/reflect.rs: the reflect FFI.  A StdValue is               *)
(* [val |-> GosValue]; the interfaces given to value_of are                 *)
(* [meta |-> .., underlying |-> <<"Gos", v>>], <<"Ffi">> or <<"None">>.     *)

\* GosValue::new_nil(), GosValue::new_str("")
new_nil == Nil(Untyped)
new_str(s) == [vt |-> "Str", s |-> s]

StdValue_new(v) == [val |-> v]

\* StdValue::value_of: the value an interface holds, Nil(iface.meta) when it
\* holds an FFI object or nothing
StdValue_value_of(iface) ==
    StdValue_new(IF iface.underlying[1] = "Gos" THEN iface.underlying[2]
                 ELSE Nil(iface.meta))

bool_val(self) == <<new_nil, new_nil>>
int_val(self) == <<[vt |-> "Int", v |-> 888], new_str("")>>
uint_val(self) == <<new_nil, new_nil>>
float_val(self) == <<new_nil, new_nil>>
bytes_val(self) == <<new_nil, new_nil>>

\* the arms of Reflect::call that take a StdValue, and its last arm
Reflect_call(func_name, v) ==
    CASE func_name = "bool_val" -> Val(bool_val(v))
      [] func_name = "int_val" -> Val(int_val(v))
      [] func_name = "uint_val" -> Val(uint_val(v))
      [] func_name = "float_val" -> Val(float_val(v))
      [] func_name = "bytes_val" -> Val(bytes_val(v))
      [] OTHER -> Fail(Unreachable)

\* the calls of the FFI, in SpecReflect
MaxReflectCalls == 4

\* the values of the interfaces: of each kind the *_val functions read, and
\* interfaces that hold an FFI object or nothing
GosVals ==
    {[vt |-> "Bool", b |-> TRUE], [vt |-> "Bool", b |-> FALSE],
     [vt |-> "Int", v |-> 7], [vt |-> "Int", v |-> 888],
     [vt |-> "Uint", v |-> 3], [vt |-> "Float64", f |-> "2.5"],
     [vt |-> "Str", s |-> "ab"]}

Ifaces ==
    {[meta |-> mint, underlying |-> <<"Gos", v>>] : v \in GosVals}
    \cup {[meta |-> mstr, underlying |-> <<"Ffi">>],
          [meta |-> mstr, underlying |-> <<"None">>]}

ValFuncs == {"bool_val", "int_val", "uint_val", "float_val", "bytes_val"}
\* and a name Reflect::call does not know
FuncNames == ValFuncs \cup {"kind"}

\* std.self is <<the StdValue behind the pointer value_of returned last>>,
\* std.prev the *_val call made before the last call
InitReflect ==
    /\ CodeIdle
    /\ MetaIdle
    /\ locals = <<>>
    /\ parser = ParserIdle
    /\ std = [on |-> TRUE, n |-> 0, self |-> <<>>, call |-> [fn |-> "none"],
              ret |-> [ret |-> "ok"], prev |-> [fn |-> "none"]]

CanReflect == std.on /\ std.n < MaxReflectCalls /\ std.ret.ret = "ok"

\* the last call, when it was a *_val call, else the one std.prev keeps
LastValCall ==
    IF std.call.fn \in ValFuncs
    THEN [fn |-> std.call.fn, self |-> std.call.self, ret |-> std.ret]
    ELSE std.prev

Reflected(self, c, r) ==
    /\ CanReflect
    /\ std' = [on |-> TRUE, n |-> std.n + 1, self |-> self, call |-> c, ret |-> r,
               prev |-> LastValCall]
    /\ UNCHANGED <<genVars, vm, metaVars, locals, parser>>

ValueOf ==
    \E iface \in Ifaces :
        LET v == StdValue_value_of(iface) IN
        Reflected(<<v>>, [fn |-> "value_of", iface |-> iface], Val(v))

ReflectCall ==
    \E func_name \in FuncNames :
        /\ std.self # <<>>
        /\ Reflected(std.self, [fn |-> func_name, self |-> std.self[1]],
                     Reflect_call(func_name, std.self[1]))

NextReflect == ValueOf \/ ReflectCall

SpecReflect == InitReflect /\ [][NextReflect]_vars

\* the dynamic type a *_val function reads
Reads(fn, v) ==
    \/ fn = "bool_val" /\ v.vt = "Bool"
    \/ fn = "int_val" /\ v.vt = "Int"
    \/ fn = "uint_val" /\ v.vt = "Uint"
    \/ fn = "float_val" /\ v.vt = "Float64"
    \/ fn = "bytes_val" /\ v.vt = "Str"

\* C20: bool_val, int_val, uint_val, float_val and bytes_val of a StdValue
\* return first the payload of the value it wraps, so the same function gives
\* different results for StdValues that wrap different values; never a
\* placeholder that does not depend on the value.
C20_ReflectPayload ==
    (std.on /\ std.call.fn \in ValFuncs /\ Reads(std.call.fn, std.call.self.val)) =>
        /\ std.ret.ret = "ok"
        /\ std.ret.val[1] # new_nil
        /\ std.call.fn # "bytes_val" => std.ret.val[1] = std.call.self.val
        /\ (/\ std.prev.fn = std.call.fn
            /\ Reads(std.prev.fn, std.prev.self.val)
            /\ std.prev.self.val # std.call.self.val)
              => std.prev.ret.val[1] # std.ret.val[1]

\* int_val of a StdValue of 888 and then of a StdValue of 7: 888 both times
C20_Witness ==
    /\ std.on /\ std.call.fn = "int_val" /\ std.prev.fn = "int_val"
    /\ std.prev.self.val = [vt |-> "Int", v |-> 888]
    /\ std.call.self.val = [vt |-> "Int", v |-> 7]
    /\ std.ret.val[1] = [vt |-> "Int", v |-> 888]
    /\ std.prev.ret = std.ret

---------------------------------------------------------------------------
(* Two-phase method population: add_method, set_method_code, get_method and *)
(* Fields::iface_named_mapping.  A member of a method table is an           *)
(* Rc<RefCell<MethodDesc>>: the cell is members[i] of the named type's      *)
(* entry, and a handle to it is [rc |-> "cell", k |-> key, i |-> i]; a cell *)
(* that belongs to no table is [rc |-> "own", desc |-> MethodDesc].         *)

\* the panic of indexing a Vec past its end
OutOfBounds == "index out of bounds"

\* a clone that copies the MethodDesc in place of sharing its cell
Rc_clone_copy(k, i, ms) == [rc |-> "own", desc |-> ms[k].methods.members[i]]

\* Rc::clone of members[i] (counted from 1) of the named type at key k
Rc_clone(k, i, ms) == [rc |-> "cell", k |-> k, i |-> i]

\* Rc::borrow: the MethodDesc a handle shows
borrow(h, ms) ==
    IF h.rc = "cell" THEN ms[h.k].methods.members[h.i] ELSE h.desc

set_method_code(self, name, func, ms) ==
    LET k == recv_meta_key(self) IN
    IF k = <<>> THEN NotMade(ms, Unreachable)
    ELSE IF ms[k[1]].t # "Named" THEN NotMade(ms, Unreachable)
    ELSE LET m == ms[k[1]].methods IN
         IF name \notin DOMAIN m.mapping THEN NotMade(ms, NoEntry)
         ELSE LET index == m.mapping[name] IN
              [metas |-> [ms EXCEPT ![k[1]].methods.members[index + 1].func = <<func>>],
               ret |-> "ok"]

get_method(self, index, ms) ==
    LET md == get_named_metadate(self, ms) IN
    IF md = <<>> THEN Fail(Unreachable)
    ELSE IF index < 0 \/ index >= Len(md[1].members) THEN Fail(OutOfBounds)
    ELSE Val(Rc_clone(recv_meta_key(self)[1], index + 1, ms))

\* iface_named_mapping: for each method of the interface, by index, a clone
\* of the member of named_obj that has its name; k is the key named_obj's
\* cells are known by
iface_named_mapping(self, named_obj, k, ms) ==
    LET default == [rc |-> "own", desc |-> MethodDesc(FALSE)] IN
    IF \E n \in DOMAIN self.mapping : n \notin DOMAIN named_obj.mapping
    THEN Fail(NoEntry)
    ELSE IF \E n \in DOMAIN self.mapping :
                self.mapping[n] < 0 \/ self.mapping[n] >= Len(self.fields)
    THEN Fail(OutOfBounds)
    ELSE Val([j \in 1..Len(self.fields) |->
                 IF \E n \in DOMAIN self.mapping : self.mapping[n] = j - 1
                 THEN LET n == CHOOSE n \in DOMAIN self.mapping :
                                   self.mapping[n] = j - 1
                      IN Rc_clone(k, named_obj.mapping[n] + 1, ms)
                 ELSE default])

\* the slots of the named type, in SpecSlots
MaxSlots == 2

SlotNames == {"a", "b"}
\* FunctionKey
FunctionKeys == {1, 2}

\* the method sets of the interfaces: a; a and b; b and a
IfaceFields ==
    {[fields |-> <<default_sig_h>>, mapping |-> [n \in {"a"} |-> 0]] :
        default_sig_h \in {NonPtr(Len(Metadata_new), FALSE)}}
    \cup {[fields |-> <<h, h>>,
           mapping |-> [n \in {"a", "b"} |-> IF n = first THEN 0 ELSE 1]] :
            h \in {NonPtr(Len(Metadata_new), FALSE)}, first \in {"a", "b"}}

\* mcall.held: the handles obtained so far, each with the index of the slot
\* it was obtained for; mcall.before: the members as the call found them
InitSlots ==
    /\ GenIdle
    /\ build = "debug"
    /\ metas = new_named(mint, Metadata_new, build).metas
    /\ mcall = [fn |-> "new_named", held |-> {}, before |-> <<>>]
    /\ mret = Val(NamedT)

SlotCall(c, r, ms) ==
    /\ mret.ret = "ok"
    /\ metas' = ms
    /\ mret' = r
    /\ mcall' = c @@ [before |-> metas[NamedT.key].methods.members,
                      held |-> mcall.held]
    /\ UNCHANGED <<auxVars, genVars, vm, build>>

SlotAdd ==
    \E self \in Receivers, name \in SlotNames, pointer_recv \in BOOLEAN :
        LET r == add_method(self, name, pointer_recv, metas) IN
        /\ MemberCount < MaxSlots
        /\ SlotCall([fn |-> "add_method", name |-> name,
                     pointer_recv |-> pointer_recv],
                    [ret |-> r.ret], r.metas)

SetMethodCode ==
    \E self \in Receivers, name \in SlotNames, func \in FunctionKeys :
        LET r == set_method_code(self, name, func, metas) IN
        SlotCall([fn |-> "set_method_code", name |-> name, func |-> func],
                 [ret |-> r.ret], r.metas)

GetMethod ==
    \E self \in Receivers, index \in 0..MaxSlots :
        LET r == get_method(self, index, metas) IN
        /\ mret.ret = "ok"
        /\ mret' = r
        /\ mcall' = [fn |-> "get_method", index |-> index,
                     before |-> metas[NamedT.key].methods.members,
                     held |-> IF r.ret = "ok"
                              THEN mcall.held \cup {[h |-> r.val, i |-> index]}
                              ELSE mcall.held]
        /\ UNCHANGED <<auxVars, genVars, vm, metas, build>>

IfaceNamedMapping ==
    \E f \in IfaceFields :
        LET named_obj == metas[NamedT.key].methods
            r == iface_named_mapping(f, named_obj, NamedT.key, metas)
        IN /\ mret.ret = "ok"
           /\ mret' = r
           /\ mcall' = [fn |-> "iface_named_mapping", fields |-> f,
                        before |-> named_obj.members,
                        held |-> IF r.ret = "ok"
                                 THEN mcall.held \cup
                                      {[h |-> r.val[f.mapping[n] + 1],
                                        i |-> named_obj.mapping[n]] :
                                           n \in DOMAIN f.mapping}
                                 ELSE mcall.held]
           /\ UNCHANGED <<auxVars, genVars, vm, metas, build>>

NextSlots == SlotAdd \/ SetMethodCode \/ GetMethod \/ IfaceNamedMapping

SpecSlots == InitSlots /\ [][NextSlots]_vars

\* C22: add_method(name, pointer_recv) appends a slot of that pointer_recv
\* and no function; set_method_code(name, f) sets the function of the slot
\* at method_index(name) to f and leaves its pointer_recv and every other
\* slot as they were; every handle get_method or iface_named_mapping gave
\* for a slot shows the slot as it is now.
C22_TwoPhaseMethods ==
    mcall.fn \in {"add_method", "set_method_code", "get_method",
                  "iface_named_mapping"} =>
        LET m == metas[NamedT.key].methods
            b == mcall.before
        IN /\ (mcall.fn = "add_method" /\ mret.ret = "ok") =>
                  m.members = Append(b, [pointer_recv |-> mcall.pointer_recv,
                                         func |-> <<>>])
           /\ (mcall.fn = "set_method_code" /\ mret.ret = "ok") =>
                  /\ method_index(NamedT, mcall.name, metas).ret = "ok"
                  /\ m.members =
                        [b EXCEPT ![method_index(NamedT, mcall.name, metas).val + 1].func =
                                      <<mcall.func>>]
           /\ \A e \in mcall.held : borrow(e.h, metas) = m.members[e.i + 1]

\* set_method_code("b", 2) on the slots a and b, while a handle to slot b
\* is held: the handle shows the function, and slot a has none
C22_Witness ==
    /\ mcall.fn = "set_method_code" /\ mret.ret = "ok"
    /\ mcall.name = "b" /\ mcall.func = 2
    /\ Len(mcall.before) = 2 /\ mcall.before[2].func = <<>>
    /\ LET i == metas[NamedT.key].methods.mapping["b"] IN
       /\ i = 1
       /\ \E e \in mcall.held : e.i = i /\ borrow(e.h, metas).func = <<2>>
       /\ metas[NamedT.key].methods.members[1].func = <<>>

---------------------------------------------------------------------------
(* src/parser.rs: declare and try_resolve.  parser.idents is the arena of   *)
(* identifiers, each [name |-> .., entity |-> IdentEntity];                 *)
(* parser.unresolved the list of the keys of the identifiers collected as   *)
(* unresolved.  A DeclObj is [obj |-> variant, names |-> the names of the   *)
(* identifiers it declares].                                                *)

\* the error of declare: the name and the entity of the previous declaration
Redeclared(name, prev) == <<name, " redeclared in this block", prev>>

\* the identifiers a DeclObj declares; <<"panic">> for DeclObj::AssignStmt
declare_idents(decl) ==
    CASE decl.obj \in {"Field", "ValueSpec"} -> decl.names
      [] decl.obj \in {"TypeSpec", "FuncDecl", "LabeledStmt"} -> <<decl.names[1]>>
      [] decl.obj \in {"ImportSpec", "NoDecl"} -> <<>>
      [] OTHER -> <<"panic">>

\* the body of declare's loop that inserts the blank identifier as well
declare_ident_with_blank(st, name, scope_ind, keeps) ==
    LET entity == st.nent + 1
        st1 == [st EXCEPT !.nent = entity, !.bound = Append(@, entity)]
        scope == st.scopes[scope_ind]
        st2 == [st1 EXCEPT !.scopes[scope_ind] =
                               Scope_insert(scope, name, entity, keeps)]
    IN IF name \in DOMAIN scope
       THEN [st2 EXCEPT !.errors = Append(@, Redeclared(name, scope[name]))]
       ELSE st2

\* the body of declare's loop, for one identifier
declare_ident(st, name, scope_ind, keeps) ==
    LET entity == st.nent + 1
        st1 == [st EXCEPT !.nent = entity, !.bound = Append(@, entity)]
        scope == st.scopes[scope_ind]
        st2 == [st1 EXCEPT !.scopes[scope_ind] =
                               Scope_insert(scope, name, entity, keeps)]
    IN IF name = "_" THEN st1
       ELSE IF name \in DOMAIN scope
            THEN [st2 EXCEPT !.errors = Append(@, Redeclared(name, scope[name]))]
            ELSE st2

RECURSIVE declare_loop(_, _, _, _)
declare_loop(st, idents, scope_ind, keeps) ==
    IF idents = <<>> THEN st
    ELSE declare_loop(declare_ident(st, Head(idents), scope_ind, keeps),
                      Tail(idents), scope_ind, keeps)

declare(p, decl, scope_ind) ==
    LET st0 == [scopes |-> p.scopes, nent |-> p.nent, errors |-> p.errors,
                bound |-> <<>>, ret |-> "ok"]
        idents == declare_idents(decl)
    IN IF idents = <<"panic">> THEN [st0 EXCEPT !.ret = Unreachable]
       ELSE declare_loop(st0, idents, scope_ind, p.keeps)

\* objects.idents.insert(Ident{pos, name, entity: NoEntity}), as parse_ident
\* makes the identifier of an expression
new_ident(p, name) ==
    [p EXCEPT !.idents = Append(@, [name |-> name, entity |-> NoEntity])]

\* Scope::look_up along the chain from top_scope outward: <<entity>> of the
\* innermost scope at or below d that has the name, <<>> if none has
RECURSIVE look_up_chain(_, _, _)
look_up_chain(scopes, d, name) ==
    IF d = 0 THEN <<>>
    ELSE IF name \in DOMAIN scopes[d] THEN <<scopes[d][name]>>
    ELSE look_up_chain(scopes, d - 1, name)

\* try_resolve that collects whether or not it is asked to
try_resolve_collecting(p, x, collect_unresolved) ==
    IF x.kind # "Ident" THEN p
    ELSE LET ident == p.idents[x.id] IN
         IF ident.entity # NoEntity THEN [p EXCEPT !.ret = AssertFailed]
         ELSE IF ident.name = "_" THEN p
         ELSE LET e == look_up_chain(p.scopes, Len(p.scopes), ident.name) IN
              IF e # <<>> THEN [p EXCEPT !.idents[x.id].entity = Entity(e[1])]
              ELSE [p EXCEPT !.idents[x.id].entity = Sentinel,
                             !.unresolved = Append(@, x.id)]

try_resolve(p, x, collect_unresolved) ==
    IF x.kind # "Ident" THEN p
    ELSE LET ident == p.idents[x.id] IN
         IF ident.entity # NoEntity THEN [p EXCEPT !.ret = AssertFailed]
         ELSE IF ident.name = "_" THEN p
         ELSE LET e == look_up_chain(p.scopes, Len(p.scopes), ident.name) IN
              IF e # <<>> THEN [p EXCEPT !.idents[x.id].entity = Entity(e[1])]
              ELSE IF collect_unresolved
                   THEN [p EXCEPT !.idents[x.id].entity = Sentinel,
                                  !.unresolved = Append(@, x.id)]
                   ELSE p

\* the calls of declare and try_resolve, in SpecResolve
MaxDecls == 3

DeclNames == {"x", "y", "_"}
\* a field of one name, a value spec of two names (distinct, repeated, with
\* a blank), a type, a function, a label, an import, no declaration
Decls ==
    {[obj |-> "Field", names |-> <<n>>] : n \in DeclNames}
    \cup {[obj |-> "ValueSpec", names |-> ns] :
             ns \in {<<"x", "y">>, <<"x", "x">>, <<"_", "x">>, <<"_", "_">>}}
    \cup {[obj |-> "TypeSpec", names |-> <<"x">>],
          [obj |-> "FuncDecl", names |-> <<"y">>],
          [obj |-> "LabeledStmt", names |-> <<"x">>],
          [obj |-> "ImportSpec", names |-> <<>>],
          [obj |-> "NoDecl", names |-> <<>>]}

InitResolve ==
    /\ CodeIdle
    /\ MetaIdle
    /\ locals = <<>>
    /\ std = StdIdle
    /\ \E keeps \in BOOLEAN :
          parser = [on |-> TRUE, scopes |-> <<>>, nent |-> 0, errors |-> <<>>,
                    keeps |-> keeps, nstmts |-> 0, ret |-> "ok",
                    call |-> [fn |-> "none"], bound |-> <<>>,
                    idents |-> <<>>, unresolved |-> <<>>]

Declare ==
    \E decl \in Decls, scope_ind \in 1..Len(parser.scopes) :
        LET st == declare(parser, decl, scope_ind) IN
        /\ parser.nstmts < MaxDecls
        /\ Parsed([parser EXCEPT
                     !.scopes = st.scopes, !.nent = st.nent, !.errors = st.errors,
                     !.ret = st.ret, !.bound = st.bound, !.nstmts = @ + 1,
                     !.call = [fn |-> "declare", decl |-> decl,
                               scope_ind |-> scope_ind,
                               scopes |-> parser.scopes,
                               errors |-> parser.errors, nent |-> parser.nent]])

\* try_resolve of the identifier parse_ident has just made, or of an
\* expression that is no identifier
TryResolve ==
    \E name \in DeclNames \cup {""}, collect_unresolved \in BOOLEAN :
        LET p1 == IF name = "" THEN parser ELSE new_ident(parser, name)
            x == IF name = "" THEN Other
                 ELSE [kind |-> "Ident", id |-> Len(p1.idents)]
            p2 == try_resolve(p1, x, collect_unresolved)
        IN /\ parser.nstmts < MaxDecls
           /\ Parsed([p2 EXCEPT
                        !.nstmts = @ + 1,
                        !.call = [fn |-> "try_resolve", x |-> x,
                                  collect_unresolved |-> collect_unresolved,
                                  idents |-> p1.idents,
                                  unresolved |-> parser.unresolved,
                                  scopes |-> parser.scopes]])

NextResolve == OpenScope \/ CloseScope \/ Declare \/ TryResolve

SpecResolve == InitResolve /\ [][NextResolve]_vars

\* the number of times id occurs in the list
Occurrences(list, id) == Cardinality({i \in 1..Len(list) : list[i] = id})

\* C25: try_resolve binds an identifier to the entity of the innermost scope
\* that declares its name; if no scope declares it, the identifier becomes
\* Sentinel and is appended once to the unresolved list when
\* collect_unresolved is set, and it and the list stay as they were when it
\* is not; "_" and an expression that is no identifier are left untouched.
C25_TryResolve ==
    (parser.on /\ parser.call.fn = "try_resolve" /\ parser.ret = "ok") =>
        LET c == parser.call
            x == c.x
        IN /\ parser.scopes = c.scopes
           /\ IF x.kind # "Ident"
              THEN parser.idents = c.idents /\ parser.unresolved = c.unresolved
              ELSE LET name == c.idents[x.id].name
                       declaring == {d \in 1..Len(c.scopes) : name \in DOMAIN c.scopes[d]}
                       after == parser.idents[x.id]
                   IN /\ \A i \in 1..Len(c.idents) : i # x.id => parser.idents[i] = c.idents[i]
                      /\ Len(parser.idents) = Len(c.idents)
                      /\ after.name = name
                      /\ IF name = "_"
                         THEN after.entity = NoEntity /\ parser.unresolved = c.unresolved
                         ELSE IF declaring # {}
                         THEN /\ \E d \in declaring :
                                    /\ \A d2 \in declaring : d2 <= d
                                    /\ after.entity = Entity(c.scopes[d][name])
                              /\ parser.unresolved = c.unresolved
                         ELSE IF c.collect_unresolved
                         THEN /\ after.entity = Sentinel
                              /\ parser.unresolved = Append(c.unresolved, x.id)
                              /\ Occurrences(parser.unresolved, x.id) = 1
                         ELSE after.entity = NoEntity /\ parser.unresolved = c.unresolved

\* x is declared in both of two scopes: the identifier x is bound to the
\* entity of the inner one
C25_Witness ==
    /\ parser.on /\ parser.call.fn = "try_resolve" /\ parser.ret = "ok"
    /\ parser.call.x.kind = "Ident"
    /\ Len(parser.scopes) = 2
    /\ "x" \in DOMAIN parser.scopes[1] /\ "x" \in DOMAIN parser.scopes[2]
    /\ parser.scopes[1]["x"] # parser.scopes[2]["x"]
    /\ parser.idents[parser.call.x.id] =
          [name |-> "x", entity |-> Entity(parser.scopes[2]["x"])]

\* the errors declare reported
DeclareErrors ==
    [i \in 1..(Len(parser.errors) - Len(parser.call.errors)) |->
        parser.errors[Len(parser.call.errors) + i]]

\* C26: declare reports "redeclared in this block" for an identifier exactly
\* when its name is not blank and is in the target scope when the identifier
\* is declared; every identifier gets an entity of its own; the blank is
\* never inserted and never reported; the other scopes stay as they were.
C26_Declare ==
    /\ (parser.on /\ "idents" \in DOMAIN parser) =>
          \A i \in 1..Len(parser.scopes) : "_" \notin DOMAIN parser.scopes[i]
    /\ (parser.on /\ parser.call.fn = "declare" /\ parser.ret = "ok") =>
          LET c == parser.call
              idents == declare_idents(c.decl)
              t == c.scope_ind
              present(i) == \/ idents[i] \in DOMAIN c.scopes[t]
                            \/ \E j \in 1..(i - 1) : idents[j] = idents[i]
              reported == {i \in 1..Len(idents) : idents[i] # "_" /\ present(i)}
          IN /\ Len(parser.bound) = Len(idents)
             /\ \A i \in 1..Len(idents) : parser.bound[i] = c.nent + i
             /\ Len(DeclareErrors) = Cardinality(reported)
             /\ \A i \in reported :
                   \E k \in 1..Len(DeclareErrors) :
                       /\ DeclareErrors[k][1] = idents[i]
                       /\ DeclareErrors[k][2] = " redeclared in this block"
             /\ \A k \in 1..Len(DeclareErrors) : DeclareErrors[k][1] # "_"
             /\ Len(parser.scopes) = Len(c.scopes)
             /\ \A d \in 1..Len(c.scopes) : d # t => parser.scopes[d] = c.scopes[d]
             /\ DOMAIN parser.scopes[t] =
                   DOMAIN c.scopes[t] \cup ({idents[i] : i \in 1..Len(idents)} \ {"_"})

\* `var _, x` in the outer of two scopes, which has x already: one error,
\* for x, and an entity of its own for either identifier
C26_Witness ==
    /\ parser.on /\ parser.call.fn = "declare" /\ parser.ret = "ok"
    /\ parser.call.decl = [obj |-> "ValueSpec", names |-> <<"_", "x">>]
    /\ parser.call.scope_ind = 1 /\ Len(parser.scopes) = 2
    /\ "x" \in DOMAIN parser.call.scopes[1]
    /\ Len(DeclareErrors) = 1 /\ DeclareErrors[1][1] = "x"
    /\ parser.bound = <<parser.nent - 1, parser.nent>>

---------------------------------------------------------------------------
(* src/parser.rs: the parser over its tokens.  The scanner (not part of    *)
(* the sources at hand) is the sequence parser.toks of the tokens of the    *)
(* file, the last of which is EOF, which it returns from then on;           *)
(* parser.pos is the position of the current token, which grows with every  *)
(* token scanned.  A token is [t |-> kind], with lit for IDENT and INT and  *)
(* with real for SEMICOLON.  parser.scopes is the chain of scopes up to     *)
(* top_scope, parser.label_scopes the chain up to label_scope.              *)

Tok(t) == [t |-> t]
IDENT(lit) == [t |-> "IDENT", lit |-> lit]
INT(lit) == [t |-> "INT", lit |-> lit]
EOF == Tok("EOF")
\* Token::ILLEGAL(""), the token of Parser::new
ILLEGAL == Tok("ILLEGAL")

\* scanner.scan() until the token is no comment: the index of that token
RECURSIVE scan(_, _)
scan(toks, i) ==
    IF i >= Len(toks) THEN Len(toks)
    ELSE IF toks[i].t = "COMMENT" THEN scan(toks, i + 1)
    ELSE i

next(p) ==
    LET i == scan(p.toks, p.pos + 1) IN [p EXCEPT !.token = p.toks[i], !.pos = i]

\* self.error_expected(self.pos, msg)
error_expected_here(p, msg) ==
    [p EXCEPT !.errors = Append(@, error_expected(<<p.token>>, msg))]

\* self.error(pos, msg), self.error_string(pos, msg)
error(p, msg) == [p EXCEPT !.errors = Append(@, <<msg>>)]

\* expect: the error is reported at the parser's position
expect(p, t) ==
    next(IF p.token.t # t THEN error_expected_here(p, <<"'", t, "'">>) ELSE p)

\* Token::is_stmt_start (token.rs, as go/parser's stmtStart)
StmtStart ==
    {"BREAK", "CONST", "CONTINUE", "DEFER", "FALLTHROUGH", "FOR", "GO", "GOTO",
     "IF", "RETURN", "SELECT", "SWITCH", "TYPE", "VAR"}

\* one turn of advance's loop that leaves sync_pos and sync_count alone
advance_iter_no_sync(p, to) ==
    IF p.token.t = "EOF" THEN [p |-> p, done |-> TRUE]
    ELSE LET p1 == next(p) IN
         IF p1.token.t \in to
         THEN IF p1.pos = p1.sync_pos /\ p1.sync_count < 10
              THEN [p |-> [p1 EXCEPT !.sync_count = @ + 1], done |-> TRUE]
              ELSE IF p1.pos > p1.sync_pos
              THEN [p |-> p1, done |-> TRUE]
              ELSE [p |-> p1, done |-> FALSE]
         ELSE [p |-> p1, done |-> FALSE]

\* one turn of advance's loop: the parser it leaves, and whether the loop
\* is left; `to` is the set of the kinds of token the function accepts
advance_iter(p, to) ==
    IF p.token.t = "EOF" THEN [p |-> p, done |-> TRUE]
    ELSE LET p1 == next(p) IN
         IF p1.token.t \in to
         THEN IF p1.pos = p1.sync_pos /\ p1.sync_count < 10
              THEN [p |-> [p1 EXCEPT !.sync_count = @ + 1], done |-> TRUE]
              ELSE IF p1.pos > p1.sync_pos
              THEN [p |-> [p1 EXCEPT !.sync_pos = p1.pos, !.sync_count = 0],
                    done |-> TRUE]
              ELSE [p |-> p1, done |-> FALSE]
         ELSE [p |-> p1, done |-> FALSE]

RECURSIVE advance(_, _)
advance(p, to) ==
    LET r == advance_iter(p, to) IN IF r.done THEN r.p ELSE advance(r.p, to)

\* the tokens of a file, in SpecAdvance
MaxToks == 4

\* the kinds of token of the files: two that start a statement, two that do
\* not, and the comment
AdvanceToks == {Tok("VAR"), Tok("IF"), IDENT("a"), Tok("COMMENT"),
                [t |-> "SEMICOLON", real |-> TRUE]}

\* the sequences of up to n tokens of an alphabet
RECURSIVE Seqs(_, _)
Seqs(alphabet, n) ==
    IF n = 0 THEN {<<>>}
    ELSE Seqs(alphabet, n - 1) \cup
         {<<t>> \o s : t \in alphabet, s \in {g \in Seqs(alphabet, n - 1) : Len(g) = n - 1}}

\* the files of up to n tokens and EOF
Files(alphabet, n) == {s \o <<EOF>> : s \in Seqs(alphabet, n)}

\* the functions given to advance: is_stmt_start, and one that accepts the
\* start of a declaration only
Tos == {StmtStart, {"CONST", "TYPE", "VAR"}}

\* Parser::new
Parser_new(toks) ==
    [on |-> TRUE, toks |-> toks, pos |-> 0, token |-> ILLEGAL,
     sync_pos |-> 0, sync_count |-> 0, expr_level |-> 0, in_rhs |-> FALSE,
     scopes |-> <<>>, label_scopes |-> <<>>, target_stack |-> <<>>,
     idents |-> <<>>, unresolved |-> <<>>, ncolons |-> 0, errors |-> <<>>,
     ret |-> "ok",
     pc |-> "parsing", call |-> [fn |-> "none"]]

InitAdvance ==
    /\ CodeIdle
    /\ MetaIdle
    /\ locals = <<>>
    /\ std = StdIdle
    /\ \E toks \in Files(AdvanceToks, MaxToks) : parser = Parser_new(toks)

\* the parser consumes a token
ParserNext ==
    /\ parser.pc = "parsing" /\ parser.token # EOF
    /\ Parsed([next(parser) EXCEPT !.call = [fn |-> "next"]])

\* advance is entered; it is called once the first token has been read
AdvanceEnter ==
    \E to \in Tos :
        /\ parser.pc = "parsing" /\ parser.pos > 0
        /\ Parsed([parser EXCEPT
                     !.pc = "advance",
                     !.call = [fn |-> "advance", to |-> to, pos |-> parser.pos,
                               token |-> parser.token,
                               sync_pos |-> parser.sync_pos,
                               sync_count |-> parser.sync_count]])

\* one turn of its loop
AdvanceIter ==
    /\ parser.pc = "advance"
    /\ LET r == advance_iter(parser, parser.call.to) IN
       Parsed([r.p EXCEPT !.pc = IF r.done THEN "parsing" ELSE "advance"])

NextAdvance == ParserNext \/ AdvanceEnter \/ AdvanceIter

SpecAdvance == InitAdvance /\ [][NextAdvance]_vars

\* the loop of advance is not held up
SpecAdvanceFair == SpecAdvance /\ WF_vars(AdvanceIter)

\* advance has returned
AdvanceReturned ==
    parser.on /\ parser.pc = "parsing" /\ parser.call.fn = "advance"

\* the first position from i on whose token is EOF or in `to`
RECURSIVE FirstIn(_, _, _)
FirstIn(toks, i, to) ==
    IF i >= Len(toks) THEN Len(toks)
    ELSE IF toks[i].t \in to THEN i
    ELSE FirstIn(toks, i + 1, to)

\* C23: advance returns at EOF or at a token in `to`, and it stops at the
\* first such token from the one that was current when it was entered: if
\* that token is in `to` and lies past sync_pos, no token is consumed.
C23_AdvanceStopsAtFirst ==
    AdvanceReturned =>
        LET c == parser.call
            first == FirstIn(parser.toks, c.pos, c.to)
        IN /\ parser.token = EOF \/ parser.token.t \in c.to
           /\ first > c.sync_pos => parser.pos = first
           /\ (c.token.t \in c.to /\ c.pos > c.sync_pos) => parser.pos = c.pos

\* advance(is_stmt_start) entered at `var` with `if` after it: it returned
\* at `if`
C23_Witness ==
    /\ AdvanceReturned
    /\ parser.call.to = StmtStart
    /\ parser.call.token = Tok("VAR") /\ parser.call.pos = 1
    /\ parser.call.sync_pos = 0
    /\ parser.token = Tok("IF") /\ parser.pos = 2

\* what holds of sync_pos and sync_count whenever advance has returned
AdvanceSynced ==
    /\ parser.on /\ "sync_count" \in DOMAIN parser =>
          /\ parser.sync_count \in 0..10
          /\ parser.sync_pos <= parser.pos
    /\ (AdvanceReturned /\ parser.token.t \in parser.call.to) =>
          LET c == parser.call IN
          \/ /\ parser.pos = c.sync_pos /\ c.sync_count < 10
             /\ parser.sync_pos = c.sync_pos
             /\ parser.sync_count = c.sync_count + 1
          \/ /\ parser.pos > c.sync_pos
             /\ parser.sync_pos = parser.pos /\ parser.sync_count = 0
    /\ (AdvanceReturned /\ parser.token.t \notin parser.call.to) =>
          /\ parser.token = EOF
          /\ parser.sync_pos = parser.call.sync_pos
          /\ parser.sync_count = parser.call.sync_count

\* C24: every call of advance returns; sync_count stays within 0..10; a
\* return at a token in `to` that is not past sync_pos happens only while
\* sync_count < 10 and counts it, and any other return at such a token is
\* past sync_pos, sets sync_pos to pos and sync_count to 0.
C24_AdvanceTerminates ==
    /\ []AdvanceSynced
    /\ (parser.on /\ parser.pc = "advance") ~> AdvanceReturned

\* advance returned at `if`, two tokens on, and moved sync_pos there
C24_Witness ==
    /\ AdvanceReturned
    /\ parser.token = Tok("IF")
    /\ parser.pos = parser.call.pos + 2
    /\ parser.call.sync_pos > 0
    /\ parser.sync_pos = parser.pos /\ parser.sync_count = 0

---------------------------------------------------------------------------
(* src/parser.rs: blocks.  parse_stmt_list is a loop around parse_stmt;     *)
(* each turn of the loop is a step of its own, parser.pc tells where the    *)
(* block is: "stmt_list" in the loop, "stmt_list_done" past it.             *)

\* the panic of close_label_scope
InvalidTargetStack == "invalid target stack."

\* Stmt::new_bad(from, to)
BadStmt(from, to) == [kind |-> "BadStmt", from |-> from, to |-> to]

\* parse_stmt
parse_stmt(p) == [p |-> p, x |-> BadStmt(0, 0)]

\* the statements kept of a list: the model keeps the last MaxStmtList
MaxStmtList == 2

Push_stmt(list, s) ==
    IF Len(list) < MaxStmtList THEN Append(list, s) ELSE Append(Tail(list), s)

\* one turn of parse_stmt_list's loop
parse_stmt_list_iter(p, list) ==
    IF p.token.t \in {"CASE", "DEFAULT", "RBRACE", "EOF"}
    THEN [p |-> p, list |-> list, done |-> TRUE]
    ELSE LET r == parse_stmt(p) IN
         [p |-> r.p, list |-> Push_stmt(list, r.x), done |-> FALSE]

open_label_scope(p) ==
    [p EXCEPT !.label_scopes = Append(@, <<>>), !.target_stack = Append(@, <<>>)]

\* close_label_scope: an error for every target that is no label of the scope
close_label_scope(p) ==
    IF p.label_scopes = <<>> THEN [p EXCEPT !.ret = UnwrapNone]
    ELSE IF p.target_stack = <<>> THEN [p EXCEPT !.ret = InvalidTargetStack]
    ELSE LET scope == p.label_scopes[Len(p.label_scopes)]
             v == p.target_stack[Len(p.target_stack)]
             undefined == SelectSeq(v, LAMBDA name : name \notin DOMAIN scope)
         IN [p EXCEPT
               !.errors = @ \o [i \in 1..Len(undefined) |->
                                   <<"label ", undefined[i], " undefined">>],
               !.target_stack = SubSeq(@, 1, Len(@) - 1),
               !.label_scopes = SubSeq(@, 1, Len(@) - 1)]

\* parse_body and parse_block_stmt up to the statement list
block_begin(p, fn) ==
    LET p1 == expect(p, "LBRACE") IN
    IF fn = "parse_body"
    THEN open_label_scope([p1 EXCEPT !.scopes = Append(@, <<>>)])
    ELSE open_scope(p1)

\* and past it
block_end(p, fn) ==
    LET p1 == IF fn = "parse_body" THEN close_label_scope(p) ELSE p
        p2 == IF p1.ret = "ok" THEN close_scope(p1) ELSE p1
    IN IF p2.ret = "ok" THEN expect(p2, "RBRACE") ELSE p2

\* the tokens of the files of SpecStmts
StmtToks == {Tok("LBRACE"), Tok("RBRACE"), Tok("CASE"), IDENT("a"),
             [t |-> "SEMICOLON", real |-> TRUE]}

InitStmts ==
    /\ CodeIdle
    /\ MetaIdle
    /\ locals = <<>>
    /\ std = StdIdle
    /\ \E toks \in Files(StmtToks, MaxToks) : parser = Parser_new(toks)

BlockEnter ==
    \E fn \in {"parse_body", "parse_block_stmt"} :
        /\ parser.pc = "parsing" /\ parser.pos > 0 /\ parser.call.fn = "next"
        /\ Parsed([block_begin(parser, fn) EXCEPT
                     !.pc = "stmt_list",
                     !.call = [fn |-> fn, list |-> <<>>, turns |-> 0,
                               pos |-> parser.pos]])

\* call.turns: 1 once the loop has called parse_stmt; call.pos: the position
\* before the last turn
StmtListIter ==
    /\ parser.pc = "stmt_list"
    /\ LET r == parse_stmt_list_iter(parser, parser.call.list) IN
       Parsed([r.p EXCEPT
                 !.pc = IF r.done THEN "stmt_list_done" ELSE "stmt_list",
                 !.call.list = r.list,
                 !.call.turns = IF r.done THEN @ ELSE 1,
                 !.call.pos = IF r.done THEN @ ELSE parser.pos])

BlockLeave ==
    /\ parser.pc = "stmt_list_done"
    /\ Parsed([block_end(parser, parser.call.fn) EXCEPT !.pc = "parsing"])

NextStmts == ParserNext \/ BlockEnter \/ StmtListIter \/ BlockLeave

SpecStmts == InitStmts /\ [][NextStmts]_vars

\* the block that is being parsed is not held up
SpecStmtsFair == SpecStmts /\ WF_vars(StmtListIter) /\ WF_vars(BlockLeave)

InBlock ==
    parser.on /\ parser.call.fn \in {"parse_body", "parse_block_stmt"}

\* every turn of the loop that called parse_stmt consumed a token
StmtProgress ==
    (InBlock /\ parser.pc = "stmt_list" /\ parser.call.turns > 0) =>
        parser.pos > parser.call.pos

\* C27: parse_stmt_list returns: it leaves its loop at CASE, DEFAULT, RBRACE
\* and EOF, every turn that calls parse_stmt consumes a token, and so
\* parse_body and parse_block_stmt return.
C27_StmtListTerminates ==
    /\ []StmtProgress
    /\ [](InBlock /\ parser.pc = "stmt_list_done" =>
             parser.token.t \in {"CASE", "DEFAULT", "RBRACE", "EOF"})
    /\ (InBlock /\ parser.pc = "stmt_list") ~> (InBlock /\ parser.pc = "parsing")

\* the block `{ a`: the loop has called parse_stmt at `a`
C27_Witness ==
    /\ InBlock /\ parser.pc = "stmt_list" /\ parser.call.turns > 0
    /\ parser.token = IDENT("a")
    /\ parser.toks[1] = Tok("LBRACE")
    /\ parser.call.list # <<>>

---------------------------------------------------------------------------
(* src/parser.rs: types and expressions.  A production takes the parser and *)
(* gives [p |-> the parser it leaves, x |-> what it returns].  An Expr is   *)
(* [kind |-> variant, ..]; an Option is <<>> or <<value>>.  The files hold  *)
(* no token of a function, struct, interface, map or channel type, of a     *)
(* composite literal or of a type switch, and the arms of those are left    *)
(* out.                                                                     *)

R(p, x) == [p |-> p, x |-> x]

\* a panic: the first one stays
Panicked(p, kind) == IF p.ret = "ok" THEN [p EXCEPT !.ret = kind] ELSE p

\* Expr::new_bad
BadExpr == [kind |-> "Bad"]
IdentExpr(id) == [kind |-> "Ident", id |-> id]

\* Token::precedence (token.rs, as go/token's Precedence); LOWEST_PREC is 0
LOWEST_PREC == 0
precedence(tok) ==
    CASE tok.t = "LOR" -> 1
      [] tok.t = "LAND" -> 2
      [] tok.t \in {"EQL", "NEQ", "LSS", "LEQ", "GTR", "GEQ"} -> 3
      [] tok.t \in {"ADD", "SUB", "OR", "XOR"} -> 4
      [] tok.t \in {"MUL", "QUO", "REM", "SHL", "SHR", "AND", "AND_NOT"} -> 5
      [] OTHER -> LOWEST_PREC

resolve(p, x) == try_resolve(p, x, TRUE)

parse_ident(p) ==
    LET name == IF p.token.t = "IDENT" THEN p.token.lit ELSE "_"
        p1 == IF p.token.t = "IDENT" THEN next(p) ELSE expect(p, "IDENT")
        p2 == new_ident(p1, name)
    IN R(p2, Len(p2.idents))

\* expect_closing: its test is of the token it is given, which is RPAREN or
\* RBRACE at every call and never a SEMICOLON
expect_closing(p, t, context) ==
    expect(IF t = "SEMICOLON"
           THEN next(error(p, <<"missing ',' before newline in ", context>>))
           ELSE p, t)

\* at_comma: x is its result
at_comma(p, context, follow) ==
    IF p.token.t = "COMMA" THEN R(p, TRUE)
    ELSE IF p.token.t = follow
    THEN R(error(p, <<"missing ','", " in ", context>>), TRUE)
    ELSE R(p, FALSE)

RECURSIVE unparen(_)
unparen(x) == IF x.kind = "Paren" THEN unparen(x.expr) ELSE x

check_expr(p, x) ==
    IF x.kind \in {"Bad", "Ident", "BasicLit", "FuncLit", "CompositeLit",
                   "Selector", "Index", "Slice", "TypeAssert", "Call", "Star",
                   "Unary", "Binary"}
    THEN R(p, x)
    ELSE IF x.kind = "Paren" THEN R(Panicked(p, Unreachable), x)
    ELSE R(error_expected_here(p, "expression"), BadExpr)

\* check_expr_or_type: an array type that has a length is taken for [...]T
check_expr_or_type(p, x) ==
    LET unparenx == unparen(x) IN
    IF unparenx.kind = "Array" /\ unparenx.len # <<>>
    THEN R(error(p, "expected array length, found '...'"), BadExpr)
    ELSE R(p, x)

\* nothing of a method runs after a panic: r, panicked, or what F makes of r
Then(r, F(_)) == IF r.p.ret # "ok" THEN r ELSE F(r)

\* Some(x) of a production's x
Some(r) == R(r.p, <<r.x>>)

\* self.f(..): a method of the parser that is called from a method it calls
\* itself; a holds the arguments after self
RECURSIVE Parser_call(_, _, _)

parse_type_name(p) ==
    LET r == parse_ident(p)
        x_ident == IdentExpr(r.x)
    IN IF r.p.token.t = "PERIOD"
       THEN LET p1 == resolve(next(r.p), x_ident)
                s == parse_ident(p1)
            IN R(s.p, [kind |-> "Selector", expr |-> x_ident, sel |-> s.x])
       ELSE R(r.p, x_ident)

parse_array_type(p) ==
    LET p1 == [expect(p, "LBRACK") EXCEPT !.expr_level = @ + 1] IN
    Then(IF p1.token.t = "ELLIPSIS"
         THEN R(p1, <<[kind |-> "Ellipsis", elt |-> <<>>]>>)
         ELSE IF p1.token.t # "RBRACK"
         THEN Some(Parser_call("parse_rhs", p1, <<>>))
         ELSE R(p1, <<>>), LAMBDA len :
    Then(Parser_call("parse_type",
                     expect([len.p EXCEPT !.expr_level = @ - 1], "RBRACK"), <<>>),
         LAMBDA elt :
    R(elt.p, [kind |-> "Array", len |-> len.x, elt |-> elt.x])))

parse_pointer_type(p) ==
    Then(Parser_call("parse_type", expect(p, "MUL"), <<>>), LAMBDA base :
    R(base.p, [kind |-> "Star", expr |-> base.x]))

\* try_ident_or_type: x is the Option it returns
try_ident_or_type(p) ==
    CASE p.ret # "ok" -> R(p, <<>>)
      [] p.token.t = "IDENT" -> Some(parse_type_name(p))
      [] p.token.t = "LBRACK" -> Some(parse_array_type(p))
      [] p.token.t = "MUL" -> Some(parse_pointer_type(p))
      [] p.token.t = "LPAREN" ->
            Then(Parser_call("parse_type", next(p), <<>>), LAMBDA typ :
            R(expect(typ.p, "RPAREN"), <<[kind |-> "Paren", expr |-> typ.x]>>))
      [] OTHER -> R(p, <<>>)

try_type(p) ==
    Then(try_ident_or_type(p), LAMBDA r :
    IF r.x # <<>> THEN R(resolve(r.p, r.x[1]), r.x) ELSE r)

parse_type(p) ==
    Then(try_type(p), LAMBDA r :
    IF r.x = <<>> THEN R(next(error_expected_here(r.p, "type")), BadExpr)
    ELSE R(r.p, r.x[1]))

\* try_var_type: x is the Option it returns
try_var_type(p, is_param) ==
    IF is_param /\ p.token.t = "ELLIPSIS"
    THEN Then(try_ident_or_type(next(p)), LAMBDA r :
         LET typ == IF r.x # <<>>
                    THEN R(resolve(r.p, r.x[1]), r.x[1])
                    ELSE R(error(r.p, "'...' parameter is missing type"), BadExpr)
         IN R(typ.p, <<[kind |-> "Ellipsis", elt |-> <<typ.x>>]>>))
    ELSE try_ident_or_type(p)

parse_var_type(p, is_param) ==
    Then(try_var_type(p, is_param), LAMBDA r :
    IF r.x # <<>> THEN R(r.p, r.x[1])
    ELSE R(next(error_expected_here(r.p, "type")), BadExpr))

parse_operand(p, lhs) ==
    CASE p.token.t = "IDENT" ->
            LET r == parse_ident(p)
                x == IdentExpr(r.x)
            IN R(IF ~lhs THEN resolve(r.p, x) ELSE r.p, x)
      [] p.token.t \in {"INT", "FLOAT", "IMAG", "CHAR", "STRING"} ->
            R(next(p), [kind |-> "BasicLit", tok |-> p.token])
      [] p.token.t = "LPAREN" ->
            Then(Parser_call("parse_rhs_or_type",
                             [next(p) EXCEPT !.expr_level = @ + 1], <<>>),
                 LAMBDA r :
            R(expect([r.p EXCEPT !.expr_level = @ - 1], "RPAREN"),
              [kind |-> "Paren", expr |-> r.x]))
      [] OTHER ->
            Then(try_ident_or_type(p), LAMBDA r :
            IF r.x # <<>>
            THEN R(IF r.x[1].kind = "Ident" THEN Panicked(r.p, AssertFailed)
                   ELSE r.p, r.x[1])
            ELSE R(advance(error_expected_here(r.p, "operand"), StmtStart), BadExpr))

parse_selector(p, x) ==
    LET sel == parse_ident(p) IN
    R(sel.p, [kind |-> "Selector", expr |-> x, sel |-> sel.x])

parse_type_assertion(p, x) ==
    LET p1 == expect(p, "LPAREN") IN
    Then(IF p1.token.t = "TYPE" THEN R(next(p1), <<>>)
         ELSE Some(Parser_call("parse_type", p1, <<>>)), LAMBDA typ :
    R(expect(typ.p, "RPAREN"), [kind |-> "TypeAssert", expr |-> x, typ |-> typ.x]))

\* the loop of parse_index_or_slice: st is [p, indices, colons, ncolons];
\* writing indices[3], past the end of the Vec, is a panic
RECURSIVE index_loop(_)
index_loop(st) ==
    IF ~(st.p.token.t = "COLON" /\ st.ncolons < 3) \/ st.p.ret # "ok" THEN st
    ELSE LET colons1 == [st.colons EXCEPT ![st.ncolons + 1] = st.p.pos]
             n1 == st.ncolons + 1
             p1 == next(st.p)
         IN IF p1.token.t \in {"COLON", "RBRACE", "EOF"}
            THEN index_loop([p |-> p1, indices |-> st.indices,
                             colons |-> colons1, ncolons |-> n1])
            ELSE Then(Parser_call("parse_rhs", p1, <<>>), LAMBDA r :
                 IF n1 + 1 > Len(st.indices)
                 THEN [p |-> Panicked(r.p, OutOfBounds), indices |-> st.indices,
                       colons |-> colons1, ncolons |-> n1]
                 ELSE index_loop([p |-> r.p,
                                  indices |-> [st.indices EXCEPT ![n1 + 1] = <<r.x>>],
                                  colons |-> colons1, ncolons |-> n1]))

\* parser.ncolons keeps the colons the last parse_index_or_slice consumed
parse_index_or_slice(p, x) ==
    LET p1 == [expect(p, "LBRACK") EXCEPT !.expr_level = @ + 1] IN
    Then(IF p1.token.t # "COLON" THEN Some(Parser_call("parse_rhs", p1, <<>>))
         ELSE R(p1, <<>>), LAMBDA first :
    Then(index_loop([p |-> first.p, indices |-> <<first.x, <<>>, <<>> >>,
                     colons |-> <<0, 0, 0>>, ncolons |-> 0]), LAMBDA st :
    LET p2 == expect([st.p EXCEPT !.expr_level = @ - 1, !.ncolons = st.ncolons],
                     "RBRACK")
        ncolons == st.ncolons
        indices == st.indices
    IN IF ncolons > 0
       THEN LET slice3 == (ncolons = 2)
                no2 == slice3 /\ indices[2] = <<>>
                no3 == slice3 /\ indices[3] = <<>>
                p3 == IF no2 THEN error(p2, "2nd index required in 3-index slice")
                      ELSE p2
                p4 == IF no3 THEN error(p3, "3rd index required in 3-index slice")
                      ELSE p3
            IN R(p4, [kind |-> "Slice", expr |-> x, low |-> indices[1],
                      high |-> IF no2 THEN <<BadExpr>> ELSE indices[2],
                      max |-> IF no3 THEN <<BadExpr>> ELSE indices[3],
                      slice3 |-> slice3])
       ELSE IF indices[1] = <<>>
            THEN R(error(p2, "expression for index value required"),
                   [kind |-> "Index", expr |-> x, index |-> BadExpr])
            ELSE R(p2, [kind |-> "Index", expr |-> x, index |-> indices[1][1]])))

\* the loop of parse_call_or_conversion: r.x is <<list, ellipsis>>
RECURSIVE call_loop(_)
call_loop(r) ==
    IF ~(r.p.token.t # "RPAREN" /\ r.p.token.t # "EOF" /\ r.x[2] # <<>>)
       \/ r.p.ret # "ok"
    THEN r
    ELSE Then(Parser_call("parse_rhs_or_type", r.p, <<>>), LAMBDA arg :
         LET list1 == Append(r.x[1], arg.x)
             e == IF arg.p.token.t = "ELLIPSIS"
                  THEN R(next(arg.p), <<arg.p.pos>>)
                  ELSE R(arg.p, r.x[2])
             c == at_comma(e.p, "argument list", "RPAREN")
         IN IF ~c.x THEN R(c.p, <<list1, e.x>>)
            ELSE call_loop(R(next(c.p), <<list1, e.x>>)))

parse_call_or_conversion(p, func) ==
    Then(call_loop(R([expect(p, "LPAREN") EXCEPT !.expr_level = @ + 1],
                     << <<>>, <<>> >>)), LAMBDA r :
    R(expect_closing([r.p EXCEPT !.expr_level = @ - 1], "RPAREN", "argument list"),
      [kind |-> "Call", func |-> func, args |-> r.x[1], ellipsis |-> r.x[2]]))

\* the loop of parse_primary_expr: r is the operand and what follows it so far
RECURSIVE parse_primary_loop(_, _)
parse_primary_loop(r, lhs) ==
    CASE r.p.ret # "ok" -> r
      [] r.p.token.t = "PERIOD" ->
            LET p1 == IF lhs THEN resolve(next(r.p), r.x) ELSE next(r.p) IN
            IF p1.token.t = "IDENT"
            THEN Then(check_expr_or_type(p1, r.x), LAMBDA c :
                 parse_primary_loop(parse_selector(c.p, c.x), FALSE))
            ELSE IF p1.token.t = "LPAREN"
            THEN Then(check_expr(p1, r.x), LAMBDA c :
                 parse_primary_loop(parse_type_assertion(c.p, c.x), FALSE))
            ELSE LET p3 == new_ident(
                             next(error_expected_here(p1, "selector or type assertion")),
                             "_")
                 IN parse_primary_loop(
                        R(p3, [kind |-> "Selector", expr |-> r.x,
                               sel |-> Len(p3.idents)]),
                        FALSE)
      [] r.p.token.t = "LBRACK" ->
            Then(check_expr(IF lhs THEN resolve(r.p, r.x) ELSE r.p, r.x), LAMBDA c :
            parse_primary_loop(parse_index_or_slice(c.p, c.x), FALSE))
      [] r.p.token.t = "LPAREN" ->
            Then(check_expr_or_type(IF lhs THEN resolve(r.p, r.x) ELSE r.p, r.x),
                 LAMBDA c :
            parse_primary_loop(parse_call_or_conversion(c.p, c.x), FALSE))
      [] OTHER -> r

parse_primary_expr(p, lhs) == parse_primary_loop(parse_operand(p, lhs), lhs)

RECURSIVE parse_unary_expr(_, _)
parse_unary_expr(p, lhs) ==
    CASE p.ret # "ok" -> R(p, BadExpr)
      [] p.token.t \in {"ADD", "SUB", "NOT", "XOR", "AND"} ->
            Then(parse_unary_expr(next(p), FALSE), LAMBDA r :
            Then(check_expr(r.p, r.x), LAMBDA c :
            R(c.p, [kind |-> "Unary", op |-> p.token, expr |-> c.x])))
      [] p.token.t = "MUL" ->
            Then(parse_unary_expr(next(p), FALSE), LAMBDA r :
            Then(check_expr_or_type(r.p, r.x), LAMBDA c :
            R(c.p, [kind |-> "Star", expr |-> c.x])))
      [] OTHER -> parse_primary_expr(p, lhs)

token_prec(p) ==
    LET token == IF p.in_rhs /\ p.token.t = "ASSIGN" THEN Tok("EQL") ELSE p.token
    IN <<token, precedence(token)>>

\* the loop of parse_binary_expr: r is the left operand so far
RECURSIVE parse_binary_expr(_, _, _), parse_binary_loop(_, _, _)
parse_binary_loop(r, lhs, prec1) ==
    IF r.p.ret # "ok" THEN r
    ELSE LET tp == token_prec(r.p) IN
         IF tp[2] < prec1 THEN r
         ELSE Then(parse_binary_expr(
                       IF lhs THEN resolve(expect(r.p, tp[1].t), r.x)
                       ELSE expect(r.p, tp[1].t),
                       FALSE, tp[2] + 1), LAMBDA y :
              parse_binary_loop(
                  R(y.p, [kind |-> "Binary", expr_a |-> r.x, op |-> tp[1],
                          expr_b |-> y.x]),
                  lhs, prec1))

parse_binary_expr(p, lhs, prec1) ==
    parse_binary_loop(parse_unary_expr(p, lhs), lhs, prec1)

parse_expr(p, lhs) == parse_binary_expr(p, lhs, LOWEST_PREC + 1)

parse_rhs(p) ==
    Then(parse_expr([p EXCEPT !.in_rhs = TRUE], FALSE), LAMBDA r0 :
    Then(check_expr(r0.p, r0.x), LAMBDA r1 :
    R([r1.p EXCEPT !.in_rhs = p.in_rhs], r1.x)))

parse_rhs_or_type(p) ==
    Then(parse_expr([p EXCEPT !.in_rhs = TRUE], FALSE), LAMBDA r0 :
    Then(check_expr_or_type(r0.p, r0.x), LAMBDA r1 :
    R([r1.p EXCEPT !.in_rhs = p.in_rhs], r1.x)))

Parser_call(fn, p, a) ==
    CASE fn = "parse_rhs" -> parse_rhs(p)
      [] fn = "parse_rhs_or_type" -> parse_rhs_or_type(p)
      [] fn = "parse_type" -> parse_type(p)
      [] fn = "parse_var_type" -> parse_var_type(p, a[1])

---------------------------------------------------------------------------
(* SpecExpr: p.next() and p.parse_rhs() on a file, as test_parser has it.   *)
(* After parse_rhs parser.call keeps the expression it returned; after a    *)
(* panic the parser is as it was when parse_rhs was entered.                *)

\* the tokens of the files of every shape, and their number
MaxExprToks == 3
ExprToks ==
    {IDENT("a"), INT("1"), Tok("LPAREN"), Tok("RPAREN"), Tok("RBRACK"),
     Tok("COLON"), Tok("COMMA"), Tok("PERIOD"), Tok("ADD"), Tok("MUL"),
     Tok("ELLIPSIS")}

\* the arguments of the calls
MaxArgs == 2
ArgToks == {IDENT("a"), IDENT("b"), INT("1")}

\* a, b, .. with commas between
RECURSIVE Commas(_)
Commas(args) ==
    IF Len(args) <= 1 THEN args
    ELSE <<Head(args), Tok("COMMA")>> \o Commas(Tail(args))

\* f(args) and f(args...)
CallFile(args, variadic) ==
    <<IDENT("f"), Tok("LPAREN")>> \o Commas(args)
    \o (IF variadic THEN <<Tok("ELLIPSIS")>> ELSE <<>>) \o <<Tok("RPAREN"), EOF>>

CallFiles ==
    {CallFile(args, v) : args \in Seqs(ArgToks, MaxArgs) \ {<<>>}, v \in BOOLEAN}

\* a[..] and a[.. without its bracket, of indices and colons
MaxIndexToks == 5
IndexFiles ==
    {<<IDENT("a"), Tok("LBRACK")>> \o body \o close \o <<EOF>> :
        body \in Seqs({INT("1"), Tok("COLON")}, MaxIndexToks),
        close \in {<<>>, <<Tok("RBRACK")>>}}

\* the expressions of identifiers, literals and selectors, nested up to n
\* times in parentheses, unary and binary operators
MaxNest == 2
Atoms == {<<IDENT("a")>>, <<INT("1")>>, <<IDENT("a"), Tok("PERIOD"), IDENT("b")>>}
RECURSIVE Exprs(_)
Exprs(n) ==
    IF n = 0 THEN Atoms
    ELSE Exprs(n - 1)
         \cup {<<Tok("LPAREN")>> \o e \o <<Tok("RPAREN")>> : e \in Exprs(n - 1)}
         \cup {<<Tok("SUB")>> \o e : e \in Exprs(n - 1)}
         \cup {e \o <<Tok("ADD")>> \o a : e \in Exprs(n - 1), a \in Atoms}

\* test_parser's "1 + 3 /  (3 + 4 + 5) * 6 + a.b"
TestFile ==
    <<INT("1"), Tok("ADD"), INT("3"), Tok("QUO"), Tok("LPAREN"), INT("3"),
      Tok("ADD"), INT("4"), Tok("ADD"), INT("5"), Tok("RPAREN"), Tok("MUL"),
      INT("6"), Tok("ADD"), IDENT("a"), Tok("PERIOD"), IDENT("b"), EOF>>

\* (a)[1] and (a).(b): a parenthesised base of an index and of a type
\* assertion
PostfixFiles ==
    {<<Tok("LPAREN"), IDENT("a"), Tok("RPAREN"), Tok("LBRACK"), INT("1"),
       Tok("RBRACK"), EOF>>,
     <<Tok("LPAREN"), IDENT("a"), Tok("RPAREN"), Tok("PERIOD"), Tok("LPAREN"),
       IDENT("b"), Tok("RPAREN"), EOF>>}

\* the files of at most n tokens of which at most MaxNest open a nested
\* operand or type
Opens(f, opening) == Cardinality({i \in DOMAIN f : f[i].t \in opening})
NestedFiles(alphabet, n, opening) ==
    {f \in Files(alphabet, n) : Opens(f, opening) <= MaxNest}

WellFormedFiles ==
    {e \o <<EOF>> : e \in Exprs(MaxNest)} \cup {TestFile} \cup PostfixFiles

InitExpr ==
    /\ CodeIdle
    /\ MetaIdle
    /\ locals = <<>>
    /\ std = StdIdle
    /\ \E toks \in NestedFiles(ExprToks, MaxExprToks, {"LPAREN"}) \cup CallFiles \cup IndexFiles
                   \cup WellFormedFiles :
          parser = Parser_new(toks)

\* p.next(), once
FirstNext ==
    /\ parser.pc = "parsing" /\ parser.pos = 0
    /\ Parsed([next(parser) EXCEPT !.call = [fn |-> "next"]])

\* parse_rhs has returned r, or has panicked
parse_rhs_returned(p, r) ==
    [(IF r.p.ret = "ok" THEN r.p ELSE [p EXCEPT !.ret = r.p.ret])
     EXCEPT !.pc = "parsed",
            !.call = [fn |-> "parse_rhs",
                      x |-> IF r.p.ret = "ok" THEN r.x ELSE BadExpr]]

ParseRhs ==
    /\ parser.pc = "parsing" /\ parser.pos = 1
    /\ Parsed(parse_rhs_returned(parser, Parser_call("parse_rhs", parser, <<>>)))

NextExpr == FirstNext \/ ParseRhs

SpecExpr == InitExpr /\ [][NextExpr]_vars

ParsedRhs == parser.on /\ parser.pc = "parsed"

\* the token an argument was parsed from
TokOf(e) ==
    IF e.kind = "Ident" THEN IDENT(parser.idents[e.id].name)
    ELSE IF e.kind = "BasicLit" THEN e.tok
    ELSE ILLEGAL

\* C21: a call of n >= 1 arguments gives a CallExpr of those n arguments in
\* their order; an ellipsis after the last argument ends the arguments and
\* its position is kept.
C21_CallArguments ==
    ParsedRhs =>
        \A args \in Seqs(ArgToks, MaxArgs) \ {<<>>}, variadic \in BOOLEAN :
            parser.toks = CallFile(args, variadic) =>
                LET x == parser.call.x IN
                /\ parser.ret = "ok"
                /\ x.kind = "Call"
                /\ Len(x.args) = Len(args)
                /\ \A i \in 1..Len(args) : TokOf(x.args[i]) = args[i]
                /\ x.ellipsis = IF variadic THEN <<2 * Len(args) + 2>> ELSE <<>>
                /\ parser.errors = <<>>
                /\ parser.token = EOF

\* f(a, b) has been parsed
C21_Witness ==
    /\ ParsedRhs /\ parser.ret = "ok"
    /\ parser.toks = CallFile(<<IDENT("a"), IDENT("b")>>, FALSE)
    /\ parser.call.x.kind = "Call"

\* C28: parse_index_or_slice consumes two colons at most and stays within
\* its three indices; it gives an Index for no colon and a Slice otherwise,
\* a 3-index slice exactly for two colons, and in a 3-index slice an index
\* that is missing is reported and replaced by a bad expression.
C28_IndexOrSlice ==
    ParsedRhs =>
        LET x == parser.call.x IN
        /\ parser.ret # OutOfBounds
        /\ parser.ncolons <= 2
        /\ (parser.ret = "ok" /\ x.kind = "Index") => parser.ncolons = 0
        /\ (parser.ret = "ok" /\ x.kind = "Slice") =>
              /\ parser.ncolons > 0
              /\ x.slice3 <=> parser.ncolons = 2
              /\ x.slice3 => x.high # <<>> /\ x.max # <<>>
              /\ (x.slice3 /\ BadExpr \in {x.high[1], x.max[1]}) =>
                    parser.errors # <<>>

\* a[1::1] has been parsed: a 3-index slice whose 2nd index is bad
C28_Witness ==
    /\ ParsedRhs /\ parser.ret = "ok"
    /\ parser.toks = <<IDENT("a"), Tok("LBRACK"), INT("1"), Tok("COLON"),
                       Tok("COLON"), INT("1"), Tok("RBRACK"), EOF>>
    /\ parser.call.x.kind = "Slice" /\ parser.call.x.slice3
    /\ parser.call.x.high = <<BadExpr>>
    /\ parser.errors = << <<"2nd index required in 3-index slice">> >>

\* C30: parse_rhs of a well-formed expression of literals, identifiers,
\* selectors, unary and binary operators and parentheses returns: check_expr
\* does not reach its branch for a parenthesised expression.
C30_ParseRhsNoPanic ==
    (ParsedRhs /\ parser.toks \in WellFormedFiles) =>
        /\ parser.ret = "ok"
        /\ parser.token = EOF

\* test_parser's expression has been parsed, to its end
C30_Witness ==
    /\ ParsedRhs /\ parser.ret = "ok"
    /\ parser.toks = TestFile
    /\ parser.token = EOF
    /\ parser.call.x.kind = "Binary"
    /\ parser.errors = <<>>

---------------------------------------------------------------------------
(* SpecTypeList: the loops that open parse_parameter_list and               *)
(* parse_field_decl, one turn at a time. parser.call keeps the list of the  *)
(* types, the token that followed the last type, whether the loop went on   *)
(* after it and whether the loop's own next() has passed a token that is    *)
(* neither a comma nor EOF: next() is called exactly when the token after   *)
(* the type is no comma.                                                    *)

\* the types kept of a list, and the errors kept of a parser, are the last
\* ones
MaxTypes == 3
MaxErrors == 3
Push_type(list, x) ==
    IF Len(list) < MaxTypes THEN Append(list, x) ELSE Append(Tail(list), x)
RECURSIVE last_errors(_)
last_errors(errors) ==
    IF Len(errors) <= MaxErrors THEN errors ELSE last_errors(Tail(errors))

\* one turn of the loop of parse_parameter_list and of parse_field_decl,
\* after parse_var_type has returned r
type_list_pushed(r, list, fn) ==
    IF r.p.token.t = "COMMA"
    THEN [p |-> r.p, list |-> Push_type(list, r.x), done |-> TRUE,
          after |-> r.p.token]
    ELSE IF fn = "parse_parameter_list" /\ next(r.p).token.t = "RPAREN"
    THEN [p |-> next(r.p), list |-> Push_type(list, r.x), done |-> TRUE,
          after |-> r.p.token]
    ELSE [p |-> next(r.p), list |-> Push_type(list, r.x), done |-> FALSE,
          after |-> r.p.token]

\* one turn of the loop of parse_parameter_list and of parse_field_decl
type_list_iter(p, list, fn, ellipsis_ok) ==
    type_list_pushed(
        Parser_call("parse_var_type", p,
                    <<fn = "parse_parameter_list" /\ ellipsis_ok>>),
        list, fn)

SEMICOLON(real) == [t |-> "SEMICOLON", real |-> real]

\* the types of the lists, and a, b, .. with commas between and the token
\* that closes the list
TypeNames == {"a", "b"}
TypeFile(names, close) ==
    Commas([i \in 1..Len(names) |-> IDENT(names[i])]) \o <<close, EOF>>
TypeFiles ==
    {TypeFile(names, close) :
        names \in Seqs(TypeNames, MaxTypes) \ {<<>>},
        close \in {Tok("RPAREN"), SEMICOLON(TRUE)}}

MaxTypeToks == 3
TypeToks ==
    {IDENT("a"), Tok("COMMA"), Tok("RPAREN"), SEMICOLON(TRUE), Tok("ELLIPSIS"),
     Tok("MUL"), Tok("LPAREN")}

InitTypeList ==
    /\ CodeIdle
    /\ MetaIdle
    /\ locals = <<>>
    /\ std = StdIdle
    /\ \E toks \in NestedFiles(TypeToks, MaxTypeToks, {"LPAREN", "MUL"})
                   \cup TypeFiles :
          parser = Parser_new(toks)

TypeListEnter ==
    /\ parser.pc = "parsing" /\ parser.pos = 1
    /\ \E fn \in {"parse_parameter_list", "parse_field_decl"},
          ellipsis_ok \in BOOLEAN :
          /\ fn = "parse_field_decl" => ~ellipsis_ok
          /\ Parsed([parser EXCEPT
                       !.pc = "type_list",
                       !.call = [fn |-> fn, ellipsis_ok |-> ellipsis_ok,
                                 list |-> <<>>, turns |-> 0, after |-> ILLEGAL,
                                 went_on |-> FALSE, skipped |-> FALSE]])

\* a turn of the loop has given r
type_list_turned(r) ==
    [r.p EXCEPT
       !.pc = IF r.done THEN "type_list_done" ELSE "type_list",
       !.errors = last_errors(@),
       !.call.list = r.list,
       !.call.turns = 1,
       !.call.after = r.after,
       !.call.went_on = ~r.done,
       !.call.skipped = @ \/ r.after.t \notin {"COMMA", "EOF"}]

TypeListIter ==
    /\ parser.pc = "type_list"
    /\ Parsed(type_list_turned(
           type_list_iter(parser, parser.call.list, parser.call.fn,
                          parser.call.ellipsis_ok)))

NextTypeList == FirstNext \/ TypeListEnter \/ TypeListIter

SpecTypeList == InitTypeList /\ [][NextTypeList]_vars

\* the loop is not held up
SpecTypeListFair == SpecTypeList /\ WF_vars(TypeListIter)

InTypeList ==
    parser.on /\ parser.call.fn \in {"parse_parameter_list", "parse_field_decl"}

\* the loop goes on after a type exactly at a comma, and its next() passes
\* no other token
TypeListSafe ==
    (InTypeList /\ parser.call.turns > 0) =>
        /\ parser.call.went_on <=> parser.call.after.t = "COMMA"
        /\ ~parser.call.skipped

\* of a, b, .. and the token that closes the list, the loop collects a, b, ..
\* and stops at the closing token
TypeListCollected ==
    (InTypeList /\ parser.pc = "type_list_done") =>
        \A names \in Seqs(TypeNames, MaxTypes) \ {<<>>},
           close \in {Tok("RPAREN"), SEMICOLON(TRUE)} :
            parser.toks = TypeFile(names, close) =>
                /\ Len(parser.call.list) = Len(names)
                /\ \A i \in 1..Len(names) :
                      TokOf(parser.call.list[i]) = IDENT(names[i])
                /\ parser.token = close

\* C29: the loops that collect the types of parse_parameter_list and of
\* parse_field_decl end on every file; after a type they go on exactly at a
\* comma, which they consume, they pass no other token, and they collect one
\* entry for each of the types that the commas separate.
C29_TypeListLoops ==
    /\ []TypeListSafe
    /\ []TypeListCollected
    /\ (InTypeList /\ parser.pc = "type_list") ~>
          (InTypeList /\ parser.pc = "type_list_done")

\* `a , b )`: the loop of parse_parameter_list has ended after its first type
C29_Witness ==
    /\ InTypeList /\ parser.pc = "type_list_done"
    /\ parser.call.fn = "parse_parameter_list"
    /\ parser.toks = TypeFile(<<"a", "b">>, Tok("RPAREN"))
    /\ Len(parser.call.list) = 1
    /\ parser.token.t = "COMMA"

====
